---- MODULE Spec2Model ----
(***************************************************************************)
(* Model of the SMART Response XE terminal firmware (ArduinoSide):         *)
(*   SoftClockSerial  - polled software serial link with a ready signal,   *)
(*                      RX/TX ring buffers and a deferred-transmit flag    *)
(*   SerialHelpers    - byte read primitives built on the link             *)
(*   SrxeInputBuffer  - the line editor's buffer and its sendLine frame    *)
(*   SrxeKeyboard     - readKeyboard(): debounce, function keys, frames    *)
(*   SrxeCommandHandler - printBlockRle(): the run-length block decoder    *)
(*                                                                         *)
(* The main context is single threaded and its position is pc.  write()    *)
(* is the one entry point that may also run from a context that preempts   *)
(* update(): update() re-enables interrupts (sei) between the bytes it     *)
(* receives, and the receiving flag exists for exactly that case.  Byte    *)
(* transmission and byte reception run with interrupts disabled (cli) and  *)
(* are therefore single steps.                                             *)
(***************************************************************************)
EXTENDS Integers, Sequences, FiniteSets, TLC

VARIABLES
    rxBuffer, rxHead, rxTail,     \* SoftClockSerial RX ring
    txBuffer, txHead, txTail,     \* SoftClockSerial TX ring
    isReceiving,                  \* _isReceiving
    framingErrorCount,            \* _framingErrorCount (uint16_t)
    sigPin,                       \* ready-signal pin level: 1 high, 0 low
    pc,                           \* position of the main context
    elapsed,                      \* millis() - startTime inside update()
    wire,                         \* what the host sees on the TX line, in order
    last,                         \* last call of write()/read(): op, arg, ret
    buffer, length, cursorPos,    \* SrxeInputBuffer _buffer, _length, _cursorPos
    rxModel, txModel,             \* reference FIFOs (drop-newest, capacity - 1)
    winDeferred, winFlushed,      \* bytes deferred / flushed in the current window
    peerTalking,                  \* the peer still has bytes to send
    loopByte,                     \* byte the loop-backed counterpart transmitted
    rxLine,                       \* waveform the counterpart last drove on the RX line
    peerCount, writeCount, readCount, sendCount,  \* environment budgets
    viewOffset, fontId,           \* SrxeInputBuffer _viewOffset, _fontId
    cursorVisible, lastBlinkTime, \* SrxeInputBuffer _cursorVisible, _lastBlinkTime
    displayLine,                  \* the line render() last handed to the screen
    lastKey, lastKeyTime,         \* SrxeKeyboard _lastKey, _lastKeyTime
    now,                          \* millis()
    enableShowStatusBar, enableDebugToScreen, enableDebugThroughSerial,
    lastKeyPressed,               \* the globals of SerialHelpers.cpp
    poll,                         \* last readKeyboard(): what was polled, accepted or not
    keyCount, timeCount,          \* environment budgets of the keyboard
    arrayPosition,                \* printBlockRle() arrayPosition
    memsetRun                     \* last memset() into arr: at, value, n

vars == << rxBuffer, rxHead, rxTail, txBuffer, txHead, txTail, isReceiving,
           framingErrorCount, sigPin, pc, elapsed, wire, last,
           buffer, length, cursorPos, rxModel, txModel, winDeferred,
           winFlushed, peerTalking, loopByte, rxLine,
           peerCount, writeCount, readCount, sendCount,
           viewOffset, fontId, cursorVisible, lastBlinkTime, displayLine,
           lastKey, lastKeyTime, now, enableShowStatusBar,
           enableDebugToScreen, enableDebugThroughSerial, lastKeyPressed,
           poll, keyCount, timeCount, arrayPosition, memsetRun >>

rxVars    == << rxBuffer, rxHead, rxTail >>
txVars    == << txBuffer, txHead, txTail >>
lineVars  == << buffer, length, cursorPos >>
budgets   == << peerCount, writeCount, readCount, sendCount >>
peerLine  == << loopByte, rxLine >>
blockVars == << arrayPosition, memsetRun >>
viewVars  == << viewOffset, fontId, cursorVisible, lastBlinkTime, displayLine >>
kbdVars   == << lastKey, lastKeyTime, enableShowStatusBar, enableDebugToScreen,
                enableDebugThroughSerial, lastKeyPressed, poll >>
uiVars    == << viewVars, kbdVars, now, keyCount, timeCount >>

----------------------------------------------------------------------------
(* Program constants *)

RX_BUFFER_SIZE == 128
TIMEOUT_MS == 10
MAX_INPUT == 128
LINE_START_MARKER == 248
LINE_END_MARKER == 249
UINT16 == 65536
arraySize == 544
DEBUG_START_MARKER == 250
DEBUG_END_MARKER == 251
bufferSize == 64
KEY_START_MARKER == 253
KEY_END_MARKER == 254
KEY_MODIFIER_SHIFT == 16
KEY_MODIFIER_SYM == 17
KEY_ENTER == 8
KEY_BACKSPACE == 127
KEY_LEFT == 227
KEY_RIGHT == 226
PROMPT_WIDTH == 5
BLINK_INTERVAL_MS == 500
KEY_DEBOUNCE_MS == 25

(* Bounds of the model *)

MaxPeerBytes == 2
MaxWrites == 2
MaxReads == 2
MaxRingEvents == 3
MaxRingReads == 2
MaxLoopBytes == 1
MaxLineLen == 2
MaxSends == 1
MaxKeySends == 1
MaxDebugSends == 2
MaxDebugLen == 2
MaxEditOps == 2
MaxBlinks == 1
MaxPolls == 3
MaxTimeSteps == 2
MaxKbdPolls == 2
MaxKbdTime == 1
MaxFnPolls == 4
MaxFnTime == 1
MaxConfirmPolls == 4
MaxConfirmTime == 1
MaxFrames == 2
MaxRuns == 3

Byte == 0..255
HIGH == 1
LOW == 0

----------------------------------------------------------------------------
(* Bit helpers *)

RECURSIVE Xor(_, _)
Xor(a, b) ==
    IF a = 0 THEN b
    ELSE IF b = 0 THEN a
    ELSE ((a + b) % 2) + 2 * Xor(a \div 2, b \div 2)

Take(s, n) == SubSeq(s, 1, IF n < Len(s) THEN n ELSE Len(s))

----------------------------------------------------------------------------
(* Bit-level framing: transmitByte and the receive code inlined in update() *)

\* The eight values driven by TX_WRITE(data & 0x01); data >>= 1.
RECURSIVE TxDataBits(_, _)
TxDataBits(data, n) ==
    IF n = 0 THEN << >>
    ELSE << data % 2 >> \o TxDataBits(data \div 2, n - 1)

\* Levels driven on the TX line, one per bit period: start, 8 data bits, stop.
transmitByteMsbFirst(data) ==
    << LOW >> \o [i \in 1..8 |-> TxDataBits(data, 8)[9 - i]] \o << HIGH >>
transmitByte(data) ==
    << LOW >> \o TxDataBits(data, 8) \o << HIGH >>

\* A line waveform in half bit periods, from the falling edge on.
HalfBitWave(levels) == [h \in 1..(2 * Len(levels)) |-> levels[(h + 1) \div 2]]

\* Level of the line h half bit periods after the falling edge (idle is high).
LineAt(wave, h) == IF h + 1 <= Len(wave) THEN wave[h + 1] ELSE HIGH

\* data |= (1 << i) for every data bit sampled high: bit i is sampled
\* HALF_BIT_TICKS + (i + 1) * BIT_TICKS after the edge, i.e. at half-bit 3 + 2i.
RECURSIVE RxAssemble(_, _)
RxAssemble(wave, i) ==
    IF i = 8 THEN 0
    ELSE (IF LineAt(wave, 3 + 2 * i) # LOW THEN 2 ^ i ELSE 0)
         + RxAssemble(wave, i + 1)

\* What the inline receiver of update() makes of a waveform:
\* start re-check at half-bit 1, data at 3..17, stop at 19.
receiveWave(wave) ==
    [ falseStart |-> LineAt(wave, 1) # LOW,
      data       |-> RxAssemble(wave, 0),
      stopOk     |-> LineAt(wave, 19) # LOW ]

\* Waveforms a peer can put on the RX line.
ValidWave(b)   == HalfBitWave(transmitByte(b))
BadStopWave(b) == HalfBitWave(<< LOW >> \o TxDataBits(b, 8) \o << LOW >>)
GlitchWave     == << LOW >>

\* What the inline receiver makes of each byte sent with transmitByte, and the
\* byte a host UART sampling at bit centres reads from the levels transmitByte
\* drives (both tabulated once).
LoopBack == [b \in Byte |-> receiveWave(ValidWave(b))]
HostSees == [b \in Byte |-> LoopBack[b].data]

----------------------------------------------------------------------------
(* SoftClockSerial: ring buffers *)

Ring == 0..(RX_BUFFER_SIZE - 1)

\* uint8_t available(): (_rxHead - _rxTail + RX_BUFFER_SIZE) % RX_BUFFER_SIZE
available == ((rxHead - rxTail + RX_BUFFER_SIZE) % RX_BUFFER_SIZE) % 256

rxBufferFullNoWrap(head) == (head + 1) = rxTail
rxBufferFull(head) == ((head + 1) % RX_BUFFER_SIZE) = rxTail

txBufferFull(head) == ((head + 1) % RX_BUFFER_SIZE) = txTail

txEmpty == txHead = txTail

\* The bytes a ring holds, oldest first, read through its indices.
RingContent(buf, tail, head) ==
    [i \in 1..((head - tail + RX_BUFFER_SIZE) % RX_BUFFER_SIZE) |->
        buf[(tail + i - 1) % RX_BUFFER_SIZE]]

RxContent == RingContent(rxBuffer, rxTail, rxHead)
TxContent == RingContent(txBuffer, txTail, txHead)

\* Reference FIFO with the documented overflow policy: a byte offered while
\* capacity - 1 bytes are held is dropped.
FifoOffer(q, b) == IF Len(q) < RX_BUFFER_SIZE - 1 THEN Append(q, b) ELSE q
FifoTake(q) == IF q = << >> THEN q ELSE Tail(q)

----------------------------------------------------------------------------
(* SoftClockSerial: transmit side *)

\* One byte on the TX line, with the pin and flag state at its start bit.
WireEntry(b, by) ==
    [ byte |-> HostSees[b], sig |-> sigPin,
      rcv |-> isReceiving, by |-> by ]

WireBytes == [i \in 1..Len(wire) |-> wire[i].byte]

TxState == [ buf |-> txBuffer, head |-> txHead, out |-> wire ]

\* void txBufferPush(uint8_t b) on a TxState
txBufferPushNoCheck(st, b) ==
    [st EXCEPT !.buf[st.head] = b, !.head = (st.head + 1) % RX_BUFFER_SIZE]
txBufferPush(st, b) ==
    IF txBufferFull(st.head)
    THEN st
    ELSE [st EXCEPT !.buf[st.head] = b,
                    !.head = (st.head + 1) % RX_BUFFER_SIZE]

\* size_t write(uint8_t b) on a TxState
writeAlwaysTransmit(st, b) ==
    [st EXCEPT !.out = Append(@, WireEntry(b, "write"))]
writeAlwaysDefer(st, b) == txBufferPush(st, b)
write(st, b) ==
    IF isReceiving
    THEN txBufferPush(st, b)
    ELSE [st EXCEPT !.out = Append(@, WireEntry(b, "write"))]

\* The loop of write(buffer, length), and the consecutive write() calls of
\* the frame senders: write() applied to the bytes in order (the sequence is
\* split in halves only to keep the evaluation shallow).
RECURSIVE writeAll(_, _)
writeAll(st, bytes) ==
    IF bytes = << >> THEN st
    ELSE IF Len(bytes) = 1 THEN write(st, bytes[1])
    ELSE LET h == Len(bytes) \div 2
             mid == writeAll(st, SubSeq(bytes, 1, h))
         IN  IF mid.head \in Ring
             THEN writeAll(mid, SubSeq(bytes, h + 1, Len(bytes)))
             ELSE mid

\* Bookkeeping of the bytes handed to write() while the flag is set.
NoteWrites(bytes) ==
    /\ winDeferred' = IF isReceiving THEN winDeferred \o bytes ELSE winDeferred
    /\ txModel' = IF isReceiving
                  THEN Take(txModel \o bytes, RX_BUFFER_SIZE - 1)
                  ELSE txModel

\* write(b), called from the main loop or from a context preempting update().
Write(b) ==
    /\ LET st == write(TxState, b)
       IN  /\ txBuffer' = st.buf
           /\ txHead' = st.head
           /\ wire' = st.out
    /\ last' = [op |-> "write", arg |-> b, ret |-> 1]
    /\ NoteWrites(<< b >>)
    /\ UNCHANGED << rxVars, txTail, isReceiving, framingErrorCount, sigPin, pc,
                    elapsed, lineVars, uiVars, rxModel, winFlushed, peerTalking,
                    peerLine, blockVars >>

\* write(buffer, length), same callers.
WriteBuffer(bytes) ==
    /\ LET st == writeAll(TxState, bytes)
       IN  /\ txBuffer' = st.buf
           /\ txHead' = st.head
           /\ wire' = st.out
    /\ last' = [op |-> "writeBuffer", arg |-> Len(bytes), ret |-> Len(bytes)]
    /\ NoteWrites(bytes)
    /\ UNCHANGED << rxVars, txTail, isReceiving, framingErrorCount, sigPin, pc,
                    elapsed, lineVars, uiVars, rxModel, winFlushed, peerTalking,
                    peerLine, blockVars >>

----------------------------------------------------------------------------
(* SoftClockSerial: read() *)

\* int read() on the RX ring: the value returned and the new tail.
readNewest ==
    IF rxHead = rxTail
    THEN [ret |-> -1, tail |-> rxTail]
    ELSE [ret |-> rxBuffer[(rxHead + RX_BUFFER_SIZE - 1) % RX_BUFFER_SIZE],
          tail |-> (rxTail + 1) % RX_BUFFER_SIZE]
read ==
    IF rxHead = rxTail
    THEN [ret |-> -1, tail |-> rxTail]
    ELSE [ret |-> rxBuffer[rxTail], tail |-> (rxTail + 1) % RX_BUFFER_SIZE]

Read ==
    /\ pc = "idle"
    /\ last' = [op |-> "read", arg |-> 0, ret |-> read.ret]
    /\ rxTail' = read.tail
    /\ rxModel' = FifoTake(rxModel)
    /\ UNCHANGED << rxBuffer, rxHead, txVars, isReceiving, framingErrorCount,
                    sigPin, pc, elapsed, wire, lineVars, uiVars, txModel, winDeferred,
                    winFlushed, peerTalking, peerLine, blockVars >>

----------------------------------------------------------------------------
(* SoftClockSerial: update(), one polling session *)

InUpdate == pc \in {"u_sig", "u_poll", "u_clr", "u_flush"}

\* startTime = millis(); _isReceiving = true;
updateBegin ==
    /\ elapsed' = 0
    /\ isReceiving' = TRUE
    /\ winDeferred' = << >>
    /\ winFlushed' = << >>
    /\ pc' = "u_sig"

UpdateEnter ==
    /\ pc = "idle"
    /\ updateBegin
    /\ UNCHANGED << rxVars, txVars, framingErrorCount, sigPin, wire, last,
                    lineVars, uiVars, rxModel, txModel, peerTalking, peerLine, blockVars >>

\* SIG_LOW();
UpdateSigLow ==
    /\ pc = "u_sig"
    /\ sigPin' = LOW
    /\ pc' = "u_poll"
    /\ UNCHANGED << rxVars, txVars, isReceiving, framingErrorCount, elapsed,
                    wire, last, lineVars, uiVars, rxModel, txModel, winDeferred,
                    winFlushed, peerTalking, peerLine, blockVars >>

\* One millisecond passes while the loop finds the RX line high.
TickStalled ==
    /\ pc = "u_poll"
    /\ elapsed < TIMEOUT_MS
    /\ UNCHANGED vars
Tick ==
    /\ pc = "u_poll"
    /\ elapsed < TIMEOUT_MS
    /\ elapsed' = elapsed + 1
    /\ UNCHANGED << rxVars, txVars, isReceiving, framingErrorCount, sigPin, pc,
                    wire, last, lineVars, uiVars, rxModel, txModel, winDeferred,
                    winFlushed, peerTalking, peerLine, blockVars >>

RxState ==
    [ buf |-> rxBuffer, head |-> rxHead, fe |-> framingErrorCount,
      restart |-> FALSE, model |-> rxModel ]

\* void rxBufferPush(uint8_t b) on an RxState
rxBufferPushNoCheck(st, b) ==
    [st EXCEPT !.buf[st.head] = b, !.head = (st.head + 1) % RX_BUFFER_SIZE]
rxBufferPush(st, b) ==
    IF ~rxBufferFull(st.head)
    THEN [st EXCEPT !.buf[st.head] = b,
                    !.head = (st.head + 1) % RX_BUFFER_SIZE]
    ELSE st

\* A receiver that counts a frame with a low stop bit and discards its byte.
receiveOneDropsBadFrames(st, r) ==
    IF r.falseStart
    THEN st
    ELSE IF r.stopOk
    THEN [rxBufferPush(st, r.data) EXCEPT
             !.restart = TRUE,
             !.model = FifoOffer(@, r.data)]
    ELSE [st EXCEPT !.fe = (@ + 1) % UINT16, !.restart = TRUE]

\* One loop iteration of update() that finds the RX line low; r is what the
\* inline receiver (receiveWave) makes of the waveform the peer drives from
\* that falling edge on.
receiveOne(st, r) ==
    IF r.falseStart
    THEN st
    ELSE [rxBufferPush(st, r.data) EXCEPT
             !.fe = IF r.stopOk THEN @ ELSE (@ + 1) % UINT16,
             !.restart = TRUE,
             !.model = FifoOffer(@, r.data)]

\* Consecutive loop iterations, one per frame of a back-to-back burst, in
\* order (split in halves only to keep the evaluation shallow).
RECURSIVE receiveAll(_, _)
receiveAll(st, rs) ==
    IF rs = << >> THEN st
    ELSE IF Len(rs) = 1 THEN receiveOne(st, rs[1])
    ELSE LET h == Len(rs) \div 2
             mid == receiveAll(st, SubSeq(rs, 1, h))
         IN  IF mid.head \in Ring
             THEN receiveAll(mid, SubSeq(rs, h + 1, Len(rs)))
             ELSE mid

\* The loop body of update() run on the frames the peer sends back to back.
UpdateReceive(rs) ==
    /\ pc = "u_poll"
    /\ elapsed < TIMEOUT_MS
    /\ LET st == receiveAll(RxState, rs)
       IN  /\ rxBuffer' = st.buf
           /\ rxHead' = st.head
           /\ framingErrorCount' = st.fe
           /\ rxModel' = st.model
           /\ elapsed' = IF st.restart THEN 0 ELSE elapsed
    /\ UNCHANGED << rxTail, txVars, isReceiving, sigPin, pc, wire, last,
                    lineVars, uiVars, txModel, winDeferred, winFlushed, peerTalking >>

\* update() leaving its loop without SIG_HIGH().
UpdateTimeoutSignalStaysLow ==
    /\ pc = "u_poll"
    /\ ~(elapsed < TIMEOUT_MS)
    /\ pc' = "u_clr"
    /\ UNCHANGED << rxVars, txVars, isReceiving, framingErrorCount, elapsed,
                    sigPin, wire, last, lineVars, uiVars, rxModel, txModel,
                    winDeferred, winFlushed, peerTalking, peerLine, blockVars >>

\* The timeout has elapsed: SIG_HIGH();
UpdateTimeout ==
    /\ pc = "u_poll"
    /\ ~(elapsed < TIMEOUT_MS)
    /\ sigPin' = HIGH
    /\ pc' = "u_clr"
    /\ UNCHANGED << rxVars, txVars, isReceiving, framingErrorCount, elapsed,
                    wire, last, lineVars, uiVars, rxModel, txModel, winDeferred,
                    winFlushed, peerTalking, peerLine, blockVars >>

\* _isReceiving = false;
UpdateClearFlag ==
    /\ pc = "u_clr"
    /\ isReceiving' = FALSE
    /\ pc' = "u_flush"
    /\ UNCHANGED << rxVars, txVars, framingErrorCount, sigPin, elapsed, wire,
                    last, lineVars, uiVars, rxModel, txModel, winDeferred,
                    winFlushed, peerTalking, peerLine, blockVars >>

FlushState ==
    [ tail |-> txTail, out |-> wire, flushed |-> winFlushed, model |-> txModel ]

\* One iteration of the loop of flushTxBuffer() on a FlushState.
flushOne(st) ==
    [ tail    |-> (st.tail + 1) % RX_BUFFER_SIZE,
      out     |-> Append(st.out, WireEntry(txBuffer[st.tail], "flush")),
      flushed |-> Append(st.flushed, HostSees[txBuffer[st.tail]]),
      model   |-> FifoTake(st.model) ]

\* n consecutive iterations (split in halves only to keep the evaluation
\* shallow).
RECURSIVE flushTimes(_, _)
flushTimes(st, n) ==
    IF n = 0 THEN st
    ELSE IF n = 1 THEN flushOne(st)
    ELSE LET mid == flushTimes(st, n \div 2)
         IN  IF mid.tail \in Ring THEN flushTimes(mid, n - n \div 2) ELSE mid

\* void flushTxBuffer(): while (_txHead != _txTail) { ... }.  The tail
\* advances by one per iteration, so the loop runs (head - tail) mod size times.
flushTxBuffer ==
    flushTimes(FlushState, (txHead - txTail + RX_BUFFER_SIZE) % RX_BUFFER_SIZE)

\* flushTxBuffer(); and update() returns.
UpdateFlush ==
    /\ pc = "u_flush"
    /\ LET st == flushTxBuffer
       IN  /\ txTail' = st.tail
           /\ wire' = st.out
           /\ winFlushed' = st.flushed
           /\ txModel' = st.model
    /\ pc' = "idle"
    /\ UNCHANGED << rxVars, txBuffer, txHead, isReceiving, framingErrorCount,
                    sigPin, elapsed, last, lineVars, uiVars, rxModel, winDeferred,
                    peerTalking, peerLine, blockVars >>

----------------------------------------------------------------------------
(* SerialHelpers: serialReadUint8() *)

\* A caller enters serialReadUint8().
ReadUint8Enter ==
    /\ pc = "idle"
    /\ pc' = "r8_test"
    /\ UNCHANGED << rxVars, txVars, isReceiving, framingErrorCount, sigPin,
                    elapsed, wire, last, lineVars, uiVars, rxModel, txModel,
                    winDeferred, winFlushed, peerTalking, peerLine, blockVars >>

\* while (!Serial.available()): the loop condition, an index comparison.
ReadUint8Test ==
    /\ pc = "r8_test"
    /\ pc' = IF available = 0 THEN "r8_body" ELSE "r8_read"
    /\ UNCHANGED << rxVars, txVars, isReceiving, framingErrorCount, sigPin,
                    elapsed, wire, last, lineVars, uiVars, rxModel, txModel,
                    winDeferred, winFlushed, peerTalking, peerLine, blockVars >>

\* The loop body: empty.
ReadUint8Body ==
    /\ pc = "r8_body"
    /\ pc' = "r8_test"
    /\ UNCHANGED << rxVars, txVars, isReceiving, framingErrorCount, sigPin,
                    elapsed, wire, last, lineVars, uiVars, rxModel, txModel,
                    winDeferred, winFlushed, peerTalking, peerLine, blockVars >>

\* return Serial.read();
ReadUint8Return ==
    /\ pc = "r8_read"
    /\ last' = [op |-> "readUint8", arg |-> 0, ret |-> read.ret % 256]
    /\ rxTail' = read.tail
    /\ rxModel' = FifoTake(rxModel)
    /\ pc' = "idle"
    /\ UNCHANGED << rxBuffer, rxHead, txVars, isReceiving, framingErrorCount,
                    sigPin, elapsed, wire, lineVars, uiVars, txModel, winDeferred,
                    winFlushed, peerTalking, peerLine, blockVars >>

----------------------------------------------------------------------------
(* SrxeInputBuffer: calculateChecksum() and sendLine() *)

\* checksum ^= _buffer[i] for i in lo..hi-1 (the range is split in halves
\* only to keep the evaluation shallow).
RECURSIVE checksumLoop(_, _, _)
checksumLoop(checksum, lo, hi) ==
    IF lo >= hi THEN checksum
    ELSE IF hi = lo + 1 THEN Xor(checksum, buffer[lo])
    ELSE LET m == (lo + hi) \div 2
             mid == checksumLoop(checksum, lo, m)
         IN  IF mid \in Byte THEN checksumLoop(mid, m, hi) ELSE mid

calculateChecksumNoLength == checksumLoop(LINE_START_MARKER, 0, length)
calculateChecksum == checksumLoop(Xor(LINE_START_MARKER, length), 0, length)

\* The arguments of the consecutive Serial.write() calls of sendLine().
sendLineWrites ==
    << LINE_START_MARKER, length >>
        \o [i \in 1..length |-> buffer[i - 1]]
        \o << calculateChecksum, LINE_END_MARKER >>

\* void sendLine(), up to the entry of the Serial.update() it ends with; the
\* rest of that update() is the steps above.
SendLine ==
    /\ pc = "idle"
    /\ LET st == writeAll(TxState, sendLineWrites)
       IN  /\ txBuffer' = st.buf
           /\ txHead' = st.head
           /\ wire' = st.out
    /\ txModel' = IF isReceiving
                  THEN Take(txModel \o sendLineWrites, RX_BUFFER_SIZE - 1)
                  ELSE txModel
    /\ last' = [op |-> "sendLine", arg |-> length, ret |-> 0]
    /\ updateBegin
    /\ UNCHANGED << rxVars, txTail, framingErrorCount, sigPin, lineVars, uiVars,
                    rxModel, peerTalking, peerLine, blockVars >>

----------------------------------------------------------------------------
(* SerialHelpers: sendKeyPacket() and sendDebugPacket() *)

\* Consecutive Serial.write() calls from the main context.
SerialWrites(bytes) ==
    /\ LET st == writeAll(TxState, bytes)
       IN  /\ txBuffer' = st.buf
           /\ txHead' = st.head
           /\ wire' = st.out
    /\ NoteWrites(bytes)

\* The arguments of the four Serial.write() calls of sendKeyPacket(key).
sendKeyPacketEndChecksum(key) ==
    << KEY_START_MARKER, key, Xor(KEY_END_MARKER, key), KEY_END_MARKER >>
sendKeyPacket(key) ==
    << KEY_START_MARKER, key, Xor(KEY_START_MARKER, key), KEY_END_MARKER >>

\* void sendKeyPacket(byte key), called on its own.
SendKeyPacket(key) ==
    /\ pc = "idle"
    /\ SerialWrites(sendKeyPacket(key))
    /\ last' = [op |-> "sendKeyPacket", arg |-> key, ret |-> 0]
    /\ UNCHANGED << rxVars, txTail, isReceiving, framingErrorCount, sigPin, pc,
                    elapsed, lineVars, rxModel, winFlushed, peerTalking,
                    peerLine, blockVars, viewVars, kbdVars, now, timeCount >>

\* The Serial.write() calls of sendDebugPacket(message, line) when the
\* serial debug flag has the value enabled: the start marker, one call per
\* character up to strlen(message), the end marker.  (The copy of the text
\* that goes to the screen when enableDebugToScreen is set is the display
\* driver's business.)
sendDebugPacket(message, enabled) ==
    IF enabled
    THEN << DEBUG_START_MARKER >> \o message \o << DEBUG_END_MARKER >>
    ELSE << >>

\* void sendDebugPacket(char* message), called on its own.
SendDebugPacket(message) ==
    /\ pc = "idle"
    /\ SerialWrites(sendDebugPacket(message, enableDebugThroughSerial))
    /\ last' = [op |-> "sendDebugPacket", arg |-> Len(message), ret |-> 0]
    /\ UNCHANGED << rxVars, txTail, isReceiving, framingErrorCount, sigPin, pc,
                    elapsed, lineVars, rxModel, winFlushed, peerTalking,
                    peerLine, blockVars, viewVars, kbdVars, now, timeCount >>

----------------------------------------------------------------------------
(* SrxeInputBuffer: the editor *)

\* fontConfig[font_id]: {cols, rows_visible, pixels_per_row, padding}.
fontConfig ==
    << << 52, 17, 8, 0 >>, << 64, 17, 8, 0 >>,
       << 32, 8, 17, 0 >>, << 25, 8, 17, 0 >> >>

\* The fields of the editor as one value.
EdState ==
    [ buf |-> buffer, len |-> length, cur |-> cursorPos, view |-> viewOffset,
      font |-> fontId, vis |-> cursorVisible, blink |-> lastBlinkTime ]

\* getCols() resets an out-of-range _fontId to 0 before it reads the table.
getColsFont(ed) == IF ed.font > 3 THEN 0 ELSE ed.font
getCols(ed) == fontConfig[getColsFont(ed) + 1][1]

getUsableWidth(ed) == (getCols(ed) - PROMPT_WIDTH) % 256

\* adjustViewOffset() with the scroll-right branch left out.
adjustViewOffsetNoScrollRight(ed) ==
    [ed EXCEPT !.font = getColsFont(ed),
               !.view = IF ed.cur < ed.view THEN ed.cur ELSE ed.view]

\* void adjustViewOffset(): visibleChars is computed from the view offset on
\* entry, then the two scroll tests run in order.
adjustViewOffset(ed) ==
    LET usable == getUsableWidth(ed)
        visibleChars == IF ed.view > 0 THEN (usable - 2) % 256 ELSE usable
        v1 == IF ed.cur < ed.view THEN ed.cur ELSE ed.view
        v2 == IF ed.cur > v1 + visibleChars
              THEN (ed.cur - visibleChars) % 256
              ELSE v1
    IN  [ed EXCEPT !.font = getColsFont(ed), !.view = v2]

\* A clear() that forgets to reset the view offset.
clearKeepsView(ed, t) ==
    [ed EXCEPT !.len = 0, !.cur = 0,
               !.buf = [ed.buf EXCEPT ![0] = 0],
               !.vis = TRUE, !.blink = t]

\* void clear() at time t.
clear(ed, t) ==
    [ed EXCEPT !.len = 0, !.cur = 0, !.view = 0,
               !.buf = [ed.buf EXCEPT ![0] = 0],
               !.vis = TRUE, !.blink = t]

\* void init(uint8_t fontId) at time t.
init(ed, f, t) == clear([ed EXCEPT !.font = f], t)

\* void setFont(uint8_t fontId).
setFont(ed, f) ==
    IF f <= 3 THEN adjustViewOffset([ed EXCEPT !.font = f]) ELSE ed

\* The backspace that removes the character under the cursor instead of the
\* one before it.
keyDeleteAtCursor(ed) ==
    IF ed.cur > 0
    THEN adjustViewOffset(
           [ed EXCEPT
              !.buf = [i \in 0..MAX_INPUT |->
                         IF i >= ed.cur /\ i <= ed.len - 2 THEN ed.buf[i + 1]
                         ELSE IF i = ed.len - 1 THEN 0
                         ELSE ed.buf[i]],
              !.len = (ed.len - 1) % 256,
              !.cur = ed.cur - 1])
    ELSE ed

\* handleKey(): the branch of Shift+Del, the backspace.
keyDelete(ed) ==
    IF ed.cur > 0
    THEN adjustViewOffset(
           [ed EXCEPT
              !.buf = [i \in 0..MAX_INPUT |->
                         IF i >= ed.cur - 1 /\ i <= ed.len - 2 THEN ed.buf[i + 1]
                         ELSE IF i = ed.len - 1 THEN 0
                         ELSE ed.buf[i]],
              !.len = (ed.len - 1) % 256,
              !.cur = ed.cur - 1])
    ELSE ed

\* KEY_LEFT without the viewport adjustment.
keyLeftNoAdjust(ed) ==
    IF ed.cur > 0 THEN [ed EXCEPT !.cur = ed.cur - 1] ELSE ed

\* handleKey(): the branch of KEY_LEFT.
keyLeft(ed) ==
    IF ed.cur > 0 THEN adjustViewOffset([ed EXCEPT !.cur = ed.cur - 1]) ELSE ed

\* KEY_RIGHT without the test against _length.
keyRightUnguarded(ed) ==
    adjustViewOffset([ed EXCEPT !.cur = (ed.cur + 1) % 256])

\* handleKey(): the branch of KEY_RIGHT.
keyRight(ed) ==
    IF ed.cur < ed.len
    THEN adjustViewOffset([ed EXCEPT !.cur = (ed.cur + 1) % 256])
    ELSE ed

\* The printable branch that overwrites instead of shifting.
keyInsertOverwrite(ed, key) ==
    IF ed.len < MAX_INPUT
    THEN adjustViewOffset(
           [ed EXCEPT
              !.buf = [i \in 0..MAX_INPUT |->
                         IF i = ed.len + 1 THEN 0
                         ELSE IF i = ed.cur THEN key
                         ELSE ed.buf[i]],
              !.len = ed.len + 1,
              !.cur = (ed.cur + 1) % 256])
    ELSE ed

\* The printable branch that leaves the cursor where it was.
keyInsertNoAdvance(ed, key) ==
    IF ed.len < MAX_INPUT
    THEN adjustViewOffset(
           [ed EXCEPT
              !.buf = [i \in 0..MAX_INPUT |->
                         IF i = ed.len + 1 THEN 0
                         ELSE IF i = ed.cur THEN key
                         ELSE IF i > ed.cur /\ i <= ed.len THEN ed.buf[i - 1]
                         ELSE ed.buf[i]],
              !.len = ed.len + 1])
    ELSE ed

\* handleKey(): the branch of a printable character.
keyInsert(ed, key) ==
    IF ed.len < MAX_INPUT
    THEN adjustViewOffset(
           [ed EXCEPT
              !.buf = [i \in 0..MAX_INPUT |->
                         IF i = ed.len + 1 THEN 0
                         ELSE IF i = ed.cur THEN key
                         ELSE IF i > ed.cur /\ i <= ed.len THEN ed.buf[i - 1]
                         ELSE ed.buf[i]],
              !.len = ed.len + 1,
              !.cur = (ed.cur + 1) % 256])
    ELSE ed

\* handleKey() whose confirm also deletes the character before the cursor.
handleKeyConfirmDeletes(ed, key, shiftPressed, t) ==
    LET e0 == [ed EXCEPT !.vis = TRUE, !.blink = t]
    IN  IF key = KEY_ENTER THEN [ed |-> keyDelete(e0), ret |-> ~shiftPressed]
        ELSE IF key = KEY_LEFT THEN [ed |-> keyLeft(e0), ret |-> FALSE]
        ELSE IF key = KEY_RIGHT THEN [ed |-> keyRight(e0), ret |-> FALSE]
        ELSE IF key >= 32 /\ key <= 126
             THEN [ed |-> keyInsert(e0, key), ret |-> FALSE]
        ELSE [ed |-> e0, ret |-> FALSE]

\* bool handleKey(byte key, bool shiftPressed) at time t: the editor it
\* leaves and the value it returns.
handleKey(ed, key, shiftPressed, t) ==
    LET e0 == [ed EXCEPT !.vis = TRUE, !.blink = t]
    IN  IF key = KEY_ENTER /\ ~shiftPressed THEN [ed |-> e0, ret |-> TRUE]
        ELSE IF key = KEY_ENTER THEN [ed |-> keyDelete(e0), ret |-> FALSE]
        ELSE IF key = KEY_BACKSPACE THEN [ed |-> e0, ret |-> FALSE]
        ELSE IF key = KEY_LEFT THEN [ed |-> keyLeft(e0), ret |-> FALSE]
        ELSE IF key = KEY_RIGHT THEN [ed |-> keyRight(e0), ret |-> FALSE]
        ELSE IF key >= 32 /\ key <= 126
             THEN [ed |-> keyInsert(e0, key), ret |-> FALSE]
        ELSE [ed |-> e0, ret |-> FALSE]

\* n consecutive handleKey(key, shiftPressed) calls (split in halves only to
\* keep the evaluation shallow).
RECURSIVE handleKeyTimes(_, _, _, _, _)
handleKeyTimes(ed, key, shiftPressed, t, n) ==
    IF n <= 0 THEN ed
    ELSE IF n = 1 THEN handleKey(ed, key, shiftPressed, t).ed
    ELSE LET h == n \div 2
             mid == handleKeyTimes(ed, key, shiftPressed, t, h)
         IN  IF mid.buf = mid.buf
             THEN handleKeyTimes(mid, key, shiftPressed, t, n - h)
             ELSE mid

\* void render() at time t: the editor it leaves (blink state, font) and the
\* display line it hands to SRXEWriteString(), one entry per column.
render(ed, t) ==
    LET toggle == t - ed.blink >= BLINK_INTERVAL_MS
        vis == IF toggle THEN ~ed.vis ELSE ed.vis
        cols == getCols(ed)
        hasLeftOverflow == ed.view > 0
        writePos0 == IF hasLeftOverflow THEN PROMPT_WIDTH + 2 ELSE PROMPT_WIDTH
        charsAvailable == IF hasLeftOverflow
                          THEN (cols - PROMPT_WIDTH - 2) % 256
                          ELSE (cols - PROMPT_WIDTH) % 256
        wanted == (ed.len - ed.view) % 256
        cut == wanted > charsAvailable - 2
        charsToShow == IF cut THEN (charsAvailable - 2) % 256 ELSE wanted
        hasRightOverflow == cut /\ ed.view + charsToShow < ed.len
        \* the loop: iteration i writes only when bufIdx < _length, and the
        \* loop stops once writePos reaches cols - 2
        bufIdx(i) == (ed.view + i) % 256
        glyph(i) == IF bufIdx(i) = ed.cur /\ vis THEN 219 ELSE ed.buf[bufIdx(i)]
        writing == SelectSeq([k \in 1..charsToShow |-> k - 1],
                             LAMBDA i : bufIdx(i) < ed.len)
        room == IF cols - 2 > writePos0 THEN cols - 2 - writePos0 ELSE 0
        shown == Take(writing, room)
        writePos1 == writePos0 + Len(shown)
        endCursor == /\ ed.cur = ed.len
                     /\ vis
                     /\ writePos1 < cols - (IF hasRightOverflow THEN 2 ELSE 0)
        line == [p \in 0..(cols - 1) |->
                   IF hasRightOverflow /\ p >= cols - 2 THEN 62
                   ELSE IF p < PROMPT_WIDTH THEN << 67, 77, 68, 62, 32 >>[p + 1]
                   ELSE IF hasLeftOverflow /\ p < writePos0 THEN 60
                   ELSE IF p < writePos1 THEN glyph(shown[p - writePos0 + 1])
                   ELSE IF p = writePos1 /\ endCursor THEN 95
                   ELSE 32]
    IN  [ ed |-> [ed EXCEPT !.vis = vis,
                            !.blink = IF toggle THEN t ELSE ed.blink,
                            !.font = getColsFont(ed)],
          line |-> [p \in 1..cols |-> line[p - 1]] ]

\* What render() at time t touches: the displayLine indices it writes, the
\* _buffer indices it reads, and its two subtractions on uint8_t operands
\* before they are stored back into a uint8_t.
renderAccess(ed, t) ==
    LET toggle == t - ed.blink >= BLINK_INTERVAL_MS
        vis == IF toggle THEN ~ed.vis ELSE ed.vis
        cols == getCols(ed)
        hasLeftOverflow == ed.view > 0
        writePos0 == IF hasLeftOverflow THEN PROMPT_WIDTH + 2 ELSE PROMPT_WIDTH
        charsAvailable == IF hasLeftOverflow
                          THEN (cols - PROMPT_WIDTH - 2) % 256
                          ELSE (cols - PROMPT_WIDTH) % 256
        wanted == (ed.len - ed.view) % 256
        cut == wanted > charsAvailable - 2
        charsToShow == IF cut THEN (charsAvailable - 2) % 256 ELSE wanted
        hasRightOverflow == cut /\ ed.view + charsToShow < ed.len
        bufIdx(i) == (ed.view + i) % 256
        writing == SelectSeq([k \in 1..charsToShow |-> k - 1],
                             LAMBDA i : bufIdx(i) < ed.len)
        room == IF cols - 2 > writePos0 THEN cols - 2 - writePos0 ELSE 0
        shown == Take(writing, room)
        writePos1 == writePos0 + Len(shown)
        endCursor == /\ ed.cur = ed.len
                     /\ vis
                     /\ writePos1 < cols - (IF hasRightOverflow THEN 2 ELSE 0)
    IN  [ cols |-> cols,
          \* memset(displayLine, ' ', cols); displayLine[cols] = '\0'; the
          \* prompt; "<<"; the loop; the end cursor; ">>"
          writes |-> (0..cols) \cup (0..(PROMPT_WIDTH - 1))
                       \cup (PROMPT_WIDTH..(writePos0 - 1))
                       \cup (writePos0..(writePos1 - 1))
                       \cup (IF endCursor THEN {writePos1} ELSE {})
                       \cup (IF hasRightOverflow THEN {cols - 2, cols - 1} ELSE {}),
          \* _buffer[bufIdx], unless the block cursor is drawn in its place
          reads |-> {bufIdx(shown[k]) : k \in 1..Len(shown)}
                       \ (IF vis THEN {ed.cur} ELSE {}),
          lengthMinusView |-> ed.len - ed.view,
          availableMinusTwo |-> charsAvailable - 2 ]

\* The fields of the editor after a method left it as e.
SetEd(e) ==
    /\ buffer' = e.buf
    /\ length' = e.len
    /\ cursorPos' = e.cur
    /\ viewOffset' = e.view
    /\ fontId' = e.font
    /\ cursorVisible' = e.vis
    /\ lastBlinkTime' = e.blink

linkVars == << rxVars, txVars, isReceiving, framingErrorCount, sigPin, pc,
               elapsed, wire, rxModel, txModel, winDeferred, winFlushed,
               peerTalking, peerLine, blockVars, budgets >>

\* A call of handleKey(key, shiftPressed) on the editor.
HandleKey(key, shiftPressed) ==
    /\ pc = "idle"
    /\ LET r == handleKey(EdState, key, shiftPressed, now)
       IN  /\ SetEd(r.ed)
           /\ last' = [op |-> "handleKey", arg |-> key,
                       ret |-> IF r.ret THEN 1 ELSE 0]
    /\ UNCHANGED << linkVars, displayLine, kbdVars, now, timeCount >>

\* A call of setFont(f).
SetFont(f) ==
    /\ pc = "idle"
    /\ SetEd(setFont(EdState, f))
    /\ last' = [op |-> "setFont", arg |-> f, ret |-> 0]
    /\ UNCHANGED << linkVars, displayLine, kbdVars, now, timeCount >>

\* A call of clear().
Clear ==
    /\ pc = "idle"
    /\ SetEd(clear(EdState, now))
    /\ last' = [op |-> "clear", arg |-> 0, ret |-> 0]
    /\ UNCHANGED << linkVars, displayLine, kbdVars, now, timeCount >>

\* A call of render().
Render ==
    /\ pc = "idle"
    /\ LET r == render(EdState, now)
       IN  /\ SetEd(r.ed)
           /\ displayLine' = r.line
    /\ last' = [op |-> "render", arg |-> 0, ret |-> 0]
    /\ UNCHANGED << linkVars, kbdVars, now, timeCount >>

----------------------------------------------------------------------------
(* SrxeKeyboard: readKeyboard() *)

\* const byte SrxeKeyboard::badKeys[].
badKeys == {10, 170, 152, 151, 150, 4, 30}

\* bool isValidKey(byte key): "Currently accepting all keys".
isValidKey(key) == TRUE

\* The debounce test with no debounce at all.
debounceAlwaysPassed(key, lk, lkt, t) == TRUE

\* The debounce test of readKeyboard(): lk, lkt are _lastKey, _lastKeyTime
\* and t is millis().
debouncePassed(key, lk, lkt, t) ==
    key # lk \/ t - lkt > KEY_DEBOUNCE_MS

\* shouldSendImmediately() answering false for every key.
shouldSendImmediatelyNever(key, symPressed, shiftPressed) == FALSE

\* bool shouldSendImmediately(byte key, bool symPressed, bool shiftPressed).
shouldSendImmediately(key, symPressed, shiftPressed) ==
    \/ shiftPressed /\ key \in {48, 49, 50, 51}
    \/ symPressed /\ key = 99

\* isSpecialFunctionOnArduinoSide() with the sym and shift branches swapped.
specialFunctionSwapped(key, symPressed, shiftPressed) ==
    IF key = 240 /\ ~symPressed /\ ~shiftPressed THEN "bar"
    ELSE IF key = 240 /\ symPressed /\ ~shiftPressed THEN "serial"
    ELSE IF key = 240 /\ ~symPressed /\ shiftPressed THEN "screen"
    ELSE "none"

\* Which branch of isSpecialFunctionOnArduinoSide() the key takes.
specialFunction(key, symPressed, shiftPressed) ==
    IF key = 240 /\ ~symPressed /\ ~shiftPressed THEN "bar"
    ELSE IF key = 240 /\ symPressed /\ ~shiftPressed THEN "screen"
    ELSE IF key = 240 /\ ~symPressed /\ shiftPressed THEN "serial"
    ELSE "none"

\* bool shouldSendModifier(byte keyPosition, bool isShift, bool isSym), on
\* the entries row.orig, row.shifted, row.symk the three key tables hold at
\* keyPosition.  readKeyboard() does not call it.
shouldSendModifier(row, isShift, isSym) ==
    \/ isShift /\ row.orig = row.shifted /\ row.orig # 0
    \/ isSym /\ (row.symk = row.orig \/ row.symk = 0) /\ row.orig # 0

\* The character of one hexadecimal digit, as %X prints it.
HexDigit(d) == IF d < 10 THEN 48 + d ELSE 55 + d

\* %d printing the wrong digit.
BoolDigitInverted(b) == IF b THEN 48 ELSE 49

\* A bool as %d prints it.
BoolDigit(b) == IF b THEN 49 ELSE 48

\* sprintf(buffer, "Key:0x%02X Sh:%d Sym:%d", key, shiftPressed, symPressed).
keyDebugText(key, shiftPressed, symPressed) ==
    << 75, 101, 121, 58, 48, 120, HexDigit(key \div 16), HexDigit(key % 16),
       32, 83, 104, 58, BoolDigit(shiftPressed),
       32, 83, 121, 109, 58, BoolDigit(symPressed) >>

\* The texts of isSpecialFunctionOnArduinoSide(): "Status bar enabled: %d",
\* "Debug to screen enabled: %d", "Debug to serial enabled: %d".
specialDebugText(kind, value) ==
    (IF kind = "bar"
     THEN << 83, 116, 97, 116, 117, 115, 32, 98, 97, 114, 32,
             101, 110, 97, 98, 108, 101, 100, 58, 32 >>
     ELSE IF kind = "screen"
     THEN << 68, 101, 98, 117, 103, 32, 116, 111, 32, 115, 99, 114, 101, 101,
             110, 32, 101, 110, 97, 98, 108, 101, 100, 58, 32 >>
     ELSE << 68, 101, 98, 117, 103, 32, 116, 111, 32, 115, 101, 114, 105, 97,
             108, 32, 101, 110, 97, 98, 108, 101, 100, 58, 32 >>)
        \o << BoolDigit(value) >>

\* A poll that leaves _lastKey alone when the code is zero.
lastKeyAfterKeepsOnZero(key, valid, accept, lk) ==
    IF valid /\ accept THEN key ELSE lk

\* _lastKey after a poll: `_lastKey = key` on the accepted paths,
\* `_lastKey = 0` in the else branch of `key != 0 && isValidKey(key)`.
lastKeyAfter(key, valid, accept, lk) ==
    IF ~valid THEN 0 ELSE IF accept THEN key ELSE lk

\* bool readKeyboard(), for a decoder that reports the code key with the
\* modifier bits shiftPressed and symPressed; row is what the key tables hold
\* at the position of the key.  On Enter the action runs up to the entry of
\* the Serial.update() inside sendLine() (the steps of update() follow), and
\* the assignments after it are taken with it: update() returns TIMEOUT_MS
\* after the last byte, and _lastKeyTime is read then.
ReadKeyboard(key, shiftPressed, symPressed, row) ==
    /\ pc = "idle"
    /\ LET r == render(EdState, now)
           valid == key # 0 /\ isValidKey(key)
           accept == valid /\ debouncePassed(key, lastKey, lastKeyTime, now)
           immediate == shouldSendImmediately(key, symPressed, shiftPressed)
           kind == IF immediate THEN "none"
                   ELSE specialFunction(key, symPressed, shiftPressed)
           edit == accept /\ ~immediate /\ kind = "none"
           h == handleKey(r.ed, key, shiftPressed, now)
           enter == edit /\ h.ret
           serialOn == IF accept /\ kind = "serial"
                       THEN ~enableDebugThroughSerial
                       ELSE enableDebugThroughSerial
           flag == IF kind = "bar" THEN ~enableShowStatusBar
                   ELSE IF kind = "screen" THEN ~enableDebugToScreen
                   ELSE serialOn
           modifier == IF shiftPressed THEN sendKeyPacket(KEY_MODIFIER_SHIFT)
                       ELSE IF symPressed THEN sendKeyPacket(KEY_MODIFIER_SYM)
                       ELSE << >>
           writes ==
               IF ~accept THEN << >>
               ELSE sendDebugPacket(keyDebugText(key, shiftPressed, symPressed),
                                    enableDebugThroughSerial)
                    \o (IF immediate THEN modifier \o sendKeyPacket(key)
                        ELSE IF kind # "none"
                        THEN sendDebugPacket(specialDebugText(kind, flag), serialOn)
                        ELSE IF enter THEN sendLineWrites
                        ELSE << >>)
           st == writeAll(TxState, writes)
       IN  /\ SetEd(IF edit THEN h.ed ELSE r.ed)
           /\ displayLine' = r.line
           /\ txBuffer' = st.buf
           /\ txHead' = st.head
           /\ wire' = st.out
           /\ txModel' = IF isReceiving
                         THEN Take(txModel \o writes, RX_BUFFER_SIZE - 1)
                         ELSE txModel
           /\ IF enter
              THEN updateBegin /\ now' = now + TIMEOUT_MS
              ELSE /\ winDeferred' = IF isReceiving THEN winDeferred \o writes
                                     ELSE winDeferred
                   /\ UNCHANGED << elapsed, isReceiving, winFlushed, pc, now >>
           /\ lastKey' = lastKeyAfter(key, valid, accept, lastKey)
           /\ lastKeyTime' = IF accept THEN now' ELSE lastKeyTime
           /\ lastKeyPressed' = IF accept THEN key ELSE lastKeyPressed
           /\ enableShowStatusBar' =
                 IF accept /\ kind = "bar" THEN ~enableShowStatusBar
                 ELSE enableShowStatusBar
           /\ enableDebugToScreen' =
                 IF accept /\ kind = "screen" THEN ~enableDebugToScreen
                 ELSE enableDebugToScreen
           /\ enableDebugThroughSerial' = serialOn
           /\ poll' = [ key |-> key, shift |-> shiftPressed, sym |-> symPressed,
                        accepted |-> accept,
                        prevKey |-> IF key = 0 THEN 0
                                    ELSE IF accept THEN key ELSE poll.prevKey,
                        prevTime |-> IF accept THEN now ELSE poll.prevTime,
                        row |-> row ]
           /\ last' = [op |-> "readKeyboard", arg |-> key,
                       ret |-> IF enter THEN 1 ELSE 0]
    /\ UNCHANGED << rxVars, txTail, framingErrorCount, sigPin, rxModel,
                    peerTalking, peerLine, blockVars, budgets, timeCount >>

\* millis() moves on by d between two polls of the main loop.
TimePasses(d) ==
    /\ pc = "idle"
    /\ now' = now + d
    /\ UNCHANGED << linkVars, last, lineVars, viewVars, kbdVars, keyCount >>

----------------------------------------------------------------------------
(* SrxeCommandHandler: printBlockRle() *)

\* arr is written by memset() and read only by SRXEWriteDataBlock(), which
\* hands it to the display: the state keeps each memset() as the range it
\* writes (memsetRun), not the 544 bytes.

\* The decimal digits of n > 0, most significant first.
RECURSIVE DecimalDigits(_)
DecimalDigits(n) ==
    IF n = 0 THEN << >> ELSE Append(DecimalDigits(n \div 10), 48 + (n % 10))

\* What %d prints of a uint16_t passed where a 16-bit int is expected.
FormatInt(n) ==
    IF n = 0 THEN << 48 >>
    ELSE IF n < UINT16 \div 2 THEN DecimalDigits(n)
    ELSE << 45 >> \o DecimalDigits(UINT16 - n)

\* sprintf(buffer, "printBlockRle x: %d, y: %d", x, y).
rleDebugText(x, y) ==
    << 112, 114, 105, 110, 116, 66, 108, 111, 99, 107, 82, 108, 101, 32,
       120, 58, 32 >> \o FormatInt(x) \o << 44, 32, 121, 58, 32 >>
        \o FormatInt(y)

\* if (arrayPosition + timesToPrintIt > arraySize)
\*     timesToPrintIt = arraySize - arrayPosition;
\* with the sum and the difference computed in uint16_t.
rleTrim(position, count) ==
    IF (position + count) % UINT16 > arraySize
    THEN (arraySize - position + UINT16) % UINT16
    ELSE count

\* printBlockRle() up to its loop: x and y read, the debug packet sent,
\* arrayPosition = 0.
PrintBlockRleBegin(x, y) ==
    /\ pc = "idle"
    /\ SerialWrites(sendDebugPacket(rleDebugText(x, y), enableDebugThroughSerial))
    /\ last' = [op |-> "printBlockRle", arg |-> x, ret |-> y]
    /\ arrayPosition' = 0
    /\ pc' = "rle_loop"
    /\ UNCHANGED << rxVars, txTail, isReceiving, framingErrorCount, sigPin,
                    elapsed, lineVars, uiVars, rxModel, winFlushed, peerTalking,
                    peerLine, memsetRun >>

\* One iteration of the loop on the run (value, count) read from the link:
\* memset(arr + arrayPosition, dataToPrint, timesToPrintIt) after the trim.
\* A memset() that runs past the end of arr overwrites whatever the linker
\* placed behind it; nothing is defined from there on, and the decoder's
\* position becomes "rle_overrun" for good.
PrintBlockRleRun(value, count) ==
    /\ pc = "rle_loop"
    /\ arrayPosition < arraySize
    /\ LET n == rleTrim(arrayPosition, count)
       IN  /\ memsetRun' = [at |-> arrayPosition, value |-> value, n |-> n]
           /\ arrayPosition' = (arrayPosition + n) % UINT16
           /\ pc' = IF arrayPosition + n > arraySize
                    THEN "rle_overrun"
                    ELSE "rle_loop"
    /\ UNCHANGED << rxVars, txVars, isReceiving, framingErrorCount, sigPin,
                    elapsed, wire, last, lineVars, uiVars, rxModel, txModel,
                    winDeferred, winFlushed, peerTalking, peerLine >>

\* The loop ends: SRXESetPosition(); SRXEWriteDataBlock(arr, arraySize);
PrintBlockRleEnd ==
    /\ pc = "rle_loop"
    /\ ~(arrayPosition < arraySize)
    /\ pc' = "idle"
    /\ UNCHANGED << rxVars, txVars, isReceiving, framingErrorCount, sigPin,
                    elapsed, wire, last, lineVars, uiVars, rxModel, txModel,
                    winDeferred, winFlushed, peerTalking, peerLine, blockVars >>

InitBlock ==
    /\ arrayPosition = 0
    /\ memsetRun = [at |-> 0, value |-> 0, n |-> 0]

----------------------------------------------------------------------------
(* Initial state: after the constructors and begin() *)

\* Before the first readKeyboard(): nothing polled, nothing accepted.
NoPoll ==
    [ key |-> 0, shift |-> FALSE, sym |-> FALSE, accepted |-> FALSE,
      prevKey |-> 0, prevTime |-> 0,
      row |-> [orig |-> 0, shifted |-> 0, symk |-> 0] ]

\* SrxeInputBuffer() and SrxeKeyboard(), and the initialisers of the globals.
InitUi ==
    /\ viewOffset = 0
    /\ fontId = 0
    /\ cursorVisible = TRUE
    /\ lastBlinkTime = 0
    /\ displayLine = << >>
    /\ lastKey = 0
    /\ lastKeyTime = 0
    /\ now = 0
    /\ enableShowStatusBar = TRUE
    /\ enableDebugToScreen = TRUE
    /\ enableDebugThroughSerial = TRUE
    /\ lastKeyPressed = 255
    /\ poll = NoPoll
    /\ keyCount = 0
    /\ timeCount = 0

Init ==
    /\ rxBuffer = [i \in Ring |-> 0]
    /\ rxHead = 0
    /\ rxTail = 0
    /\ txBuffer = [i \in Ring |-> 0]
    /\ txHead = 0
    /\ txTail = 0
    /\ isReceiving = FALSE
    /\ framingErrorCount = 0
    /\ sigPin = HIGH
    /\ pc = "idle"
    /\ elapsed = 0
    /\ wire = << >>
    /\ last = [op |-> "none", arg |-> 0, ret |-> 0]
    /\ buffer = [i \in 0..MAX_INPUT |-> 0]
    /\ length = 0
    /\ cursorPos = 0
    /\ rxModel = << >>
    /\ txModel = << >>
    /\ winDeferred = << >>
    /\ winFlushed = << >>
    /\ peerTalking = TRUE
    /\ loopByte = 0
    /\ rxLine = << >>
    /\ InitBlock
    /\ peerCount = 0
    /\ writeCount = 0
    /\ readCount = 0
    /\ sendCount = 0
    /\ InitUi

----------------------------------------------------------------------------
(* Spec: the link driven by a peer and by callers of write() and read(),    *)
(* a few bytes each                                                         *)

PeerBytes == {0, 165}
WriteBytes == {104, 255}
PeerWaves ==
    {ValidWave(b) : b \in PeerBytes} \cup {BadStopWave(0), GlitchWave}

PeerSends ==
    /\ peerCount < MaxPeerBytes
    /\ peerCount' = peerCount + 1
    /\ \E w \in PeerWaves : UpdateReceive(<< receiveWave(w) >>)
    /\ UNCHANGED << peerLine, blockVars, writeCount, readCount, sendCount >>

\* Callers write at the start or at the end of a timeout window, or outside
\* update().
CallWrite ==
    /\ writeCount < MaxWrites
    /\ elapsed \in {0, TIMEOUT_MS}
    /\ writeCount' = writeCount + 1
    /\ \E b \in WriteBytes : Write(b)
    /\ UNCHANGED << peerCount, readCount, sendCount >>

CallRead ==
    /\ readCount < MaxReads
    /\ readCount' = readCount + 1
    /\ Read
    /\ UNCHANGED << peerCount, writeCount, sendCount >>

CallUpdate == UpdateEnter /\ UNCHANGED budgets

Next ==
    \/ CallUpdate
    \/ UpdateSigLow /\ UNCHANGED budgets
    \/ Tick /\ UNCHANGED budgets
    \/ PeerSends
    \/ UpdateTimeout /\ UNCHANGED budgets
    \/ UpdateClearFlag /\ UNCHANGED budgets
    \/ UpdateFlush /\ UNCHANGED budgets
    \/ CallWrite
    \/ CallRead

Spec == Init /\ [][Next]_vars

----------------------------------------------------------------------------
(* SpecRing: numbered byte streams arriving in bursts long enough to fill,  *)
(* overflow and wrap both rings                                             *)

BurstLens == {1, RX_BUFFER_SIZE - 1}

\* The i-th byte of the k-th burst of a stream.
StreamByte(k, i) == (k * 37 + i) % 256
StreamBurst(k, n) == [i \in 1..n |-> StreamByte(k, i)]
LoopBurst(k, n) == [i \in 1..n |-> LoopBack[StreamByte(k, i)]]

RingEvents == peerCount + writeCount

\* The peer answers the ready signal at once, with one byte or a long burst.
RingPeerSends ==
    /\ RingEvents < MaxRingEvents
    /\ elapsed = 0
    /\ peerCount' = peerCount + 1
    /\ \E n \in BurstLens : UpdateReceive(LoopBurst(RingEvents, n))
    /\ UNCHANGED << peerLine, blockVars, writeCount, readCount, sendCount >>

RingWrite ==
    /\ RingEvents < MaxRingEvents
    /\ pc \in {"idle", "u_poll", "u_clr"}
    /\ elapsed \in {0, TIMEOUT_MS}
    /\ writeCount' = writeCount + 1
    /\ Write(StreamByte(RingEvents, 0))
    /\ UNCHANGED << peerCount, readCount, sendCount >>

RingWriteBuffer ==
    /\ RingEvents < MaxRingEvents
    /\ pc = "u_poll"
    /\ elapsed = 0
    /\ writeCount' = writeCount + 1
    /\ WriteBuffer(StreamBurst(RingEvents, RX_BUFFER_SIZE - 1))
    /\ UNCHANGED << peerCount, readCount, sendCount >>

RingRead ==
    /\ readCount < MaxRingReads
    /\ readCount' = readCount + 1
    /\ Read
    /\ UNCHANGED << peerCount, writeCount, sendCount >>

NextRing ==
    \/ CallUpdate
    \/ UpdateSigLow /\ UNCHANGED budgets
    \/ Tick /\ UNCHANGED budgets
    \/ RingPeerSends
    \/ UpdateTimeout /\ UNCHANGED budgets
    \/ UpdateClearFlag /\ UNCHANGED budgets
    \/ UpdateFlush /\ UNCHANGED budgets
    \/ RingWrite
    \/ RingWriteBuffer
    \/ RingRead

SpecRing == Init /\ [][NextRing]_vars

----------------------------------------------------------------------------
(* SpecLoop: the RX line wired to a transmitter running transmitByte        *)

LoopbackSends ==
    /\ peerCount < MaxLoopBytes
    /\ peerCount' = peerCount + 1
    /\ elapsed = 0
    /\ \E b \in Byte :
          /\ loopByte' = b
          /\ rxLine' = HalfBitWave(transmitByte(b))
          /\ UpdateReceive(<< receiveWave(HalfBitWave(transmitByte(b))) >>)
    /\ UNCHANGED << blockVars, writeCount, readCount, sendCount >>

NextLoop ==
    \/ CallUpdate
    \/ UpdateSigLow /\ UNCHANGED budgets
    \/ Tick /\ UNCHANGED budgets
    \/ LoopbackSends
    \/ UpdateTimeout /\ UNCHANGED budgets
    \/ UpdateClearFlag /\ UNCHANGED budgets
    \/ UpdateFlush /\ UNCHANGED budgets

SpecLoop == Init /\ [][NextLoop]_vars

----------------------------------------------------------------------------
(* SpecLive: update() against a peer that sends for as long as it likes     *)

LiveBytes == {104}

\* The peer puts one more frame on the RX line inside the timeout.
LivePeerSends ==
    /\ peerTalking
    /\ \E b \in LiveBytes : UpdateReceive(<< LoopBack[b] >>)
    /\ UNCHANGED << peerLine, blockVars, budgets >>

PeerStops ==
    /\ peerTalking
    /\ peerTalking' = FALSE
    /\ UNCHANGED << rxVars, txVars, isReceiving, framingErrorCount, sigPin, pc,
                    elapsed, wire, last, lineVars, uiVars, rxModel, txModel,
                    winDeferred, winFlushed, peerLine, blockVars, budgets >>

PeerResumes ==
    /\ ~peerTalking
    /\ peerTalking' = TRUE
    /\ UNCHANGED << rxVars, txVars, isReceiving, framingErrorCount, sigPin, pc,
                    elapsed, wire, last, lineVars, uiVars, rxModel, txModel,
                    winDeferred, winFlushed, peerLine, blockVars, budgets >>

\* The steps update() takes by itself: the processor runs and millis()
\* advances.
UpdateStep ==
    \/ UpdateSigLow /\ UNCHANGED budgets
    \/ Tick /\ UNCHANGED budgets
    \/ UpdateTimeout /\ UNCHANGED budgets
    \/ UpdateClearFlag /\ UNCHANGED budgets
    \/ UpdateFlush /\ UNCHANGED budgets

NextLive ==
    \/ CallUpdate
    \/ UpdateSigLow /\ UNCHANGED budgets
    \/ Tick /\ UNCHANGED budgets
    \/ LivePeerSends
    \/ PeerStops
    \/ PeerResumes
    \/ UpdateTimeout /\ UNCHANGED budgets
    \/ UpdateClearFlag /\ UNCHANGED budgets
    \/ UpdateFlush /\ UNCHANGED budgets

SpecLive == Init /\ [][NextLive]_vars /\ WF_vars(UpdateStep)

----------------------------------------------------------------------------
(* SpecRead: serialReadUint8() and update() called from the main loop       *)

ReadUint8Step ==
    \/ ReadUint8Test /\ UNCHANGED budgets
    \/ ReadUint8Body /\ UNCHANGED budgets
    \/ ReadUint8Return /\ UNCHANGED budgets

NextRead ==
    \/ CallUpdate
    \/ UpdateSigLow /\ UNCHANGED budgets
    \/ Tick /\ UNCHANGED budgets
    \/ PeerSends
    \/ UpdateTimeout /\ UNCHANGED budgets
    \/ UpdateClearFlag /\ UNCHANGED budgets
    \/ UpdateFlush /\ UNCHANGED budgets
    \/ ReadUint8Enter /\ UNCHANGED budgets
    \/ ReadUint8Test /\ UNCHANGED budgets
    \/ ReadUint8Body /\ UNCHANGED budgets
    \/ ReadUint8Return /\ UNCHANGED budgets

SpecRead ==
    Init /\ [][NextRead]_vars /\ WF_vars(UpdateStep) /\ WF_vars(ReadUint8Step)

----------------------------------------------------------------------------
(* SpecLine: sendLine() on the lines the editor can hold                    *)

LineChars == {32, 65, 126}
LongLens == {MAX_INPUT - 1, MAX_INPUT}

\* Contents handleKey() can leave: printable characters, then the terminator.
LineBuffer(chars) ==
    [i \in 0..MAX_INPUT |-> IF i < Len(chars) THEN chars[i + 1] ELSE 0]

ShortLines ==
    UNION {[1..n -> LineChars] : n \in 0..MaxLineLen}

LongLine(n, k) == [i \in 1..n |-> 32 + ((i * (k + 6)) % 95)]

InitLine ==
    /\ rxBuffer = [i \in Ring |-> 0]
    /\ rxHead = 0
    /\ rxTail = 0
    /\ txBuffer = [i \in Ring |-> 0]
    /\ txHead = 0
    /\ txTail = 0
    /\ isReceiving = FALSE
    /\ framingErrorCount = 0
    /\ sigPin = HIGH
    /\ pc = "idle"
    /\ elapsed = 0
    /\ wire = << >>
    /\ last = [op |-> "none", arg |-> 0, ret |-> 0]
    /\ \E chars \in ShortLines \cup {LongLine(n, k) : n \in LongLens, k \in 1..2} :
          /\ buffer = LineBuffer(chars)
          /\ length = Len(chars)
    /\ cursorPos \in 0..length
    /\ rxModel = << >>
    /\ txModel = << >>
    /\ winDeferred = << >>
    /\ winFlushed = << >>
    /\ peerTalking = TRUE
    /\ loopByte = 0
    /\ rxLine = << >>
    /\ InitBlock
    /\ peerCount = 0
    /\ writeCount = 0
    /\ readCount = 0
    /\ sendCount = 0
    /\ InitUi

CallSendLine ==
    /\ sendCount < MaxSends
    /\ sendCount' = sendCount + 1
    /\ SendLine
    /\ UNCHANGED << peerCount, writeCount, readCount >>

NextLine ==
    \/ CallSendLine
    \/ UpdateSigLow /\ UNCHANGED budgets
    \/ Tick /\ UNCHANGED budgets
    \/ UpdateTimeout /\ UNCHANGED budgets
    \/ UpdateClearFlag /\ UNCHANGED budgets
    \/ UpdateFlush /\ UNCHANGED budgets

SpecLine == InitLine /\ [][NextLine]_vars

----------------------------------------------------------------------------
(* SpecKey: sendKeyPacket() on every key code                               *)

CallSendKey ==
    /\ keyCount < MaxKeySends
    /\ keyCount' = keyCount + 1
    /\ \E c \in Byte : SendKeyPacket(c)
    /\ UNCHANGED budgets

NextKey == CallSendKey

SpecKey == Init /\ [][NextKey]_vars

----------------------------------------------------------------------------
(* SpecDebug: sendDebugPacket() on short and long texts                     *)

DebugChars == {65, 122}
DebugLongLens == {bufferSize - 1, bufferSize, 2 * bufferSize + 2}

\* C strings: any characters but the terminator.
DebugTexts ==
    UNION {[1..n -> DebugChars] : n \in 0..MaxDebugLen}
        \cup {[i \in 1..n |-> 65 + (i % 26)] : n \in DebugLongLens}

CallSendDebug ==
    /\ keyCount < MaxDebugSends
    /\ keyCount' = keyCount + 1
    /\ \E message \in DebugTexts : SendDebugPacket(message)
    /\ UNCHANGED budgets

NextDebug == CallSendDebug

SpecDebug == Init /\ [][NextDebug]_vars

----------------------------------------------------------------------------
(* SpecEdit: the editor under handleKey(), setFont(), clear() and render()  *)

EditFonts == {0, 3, 7}
EditLens == {0, 19, 21, MAX_INPUT - 1}
EditMoves == {0, 2, MAX_INPUT}
EditKeys == {65, 122, KEY_ENTER, KEY_BACKSPACE, KEY_LEFT, KEY_RIGHT, 10}
SetFontArgs == 0..4

\* The i-th character typed into the lines the editor starts from.
TypedChar(i) == 97 + (i % 26)

\* handleKey() called with each key of keys in order (split in halves only
\* to keep the evaluation shallow).
RECURSIVE handleKeySeq(_, _, _)
handleKeySeq(ed, keys, t) ==
    IF keys = << >> THEN ed
    ELSE IF Len(keys) = 1 THEN handleKey(ed, keys[1], FALSE, t).ed
    ELSE LET h == Len(keys) \div 2
             mid == handleKeySeq(ed, SubSeq(keys, 1, h), t)
         IN  IF mid.buf = mid.buf
             THEN handleKeySeq(mid, SubSeq(keys, h + 1, Len(keys)), t)
             ELSE mid

\* The editor after init(f), n typed characters and m presses of KEY_LEFT.
TypedLine(f, n, m) ==
    LET blank == [ buf |-> [i \in 0..MAX_INPUT |-> 0], len |-> 0, cur |-> 0,
                   view |-> 0, font |-> 0, vis |-> TRUE, blink |-> 0 ]
        typed == handleKeySeq(init(blank, f, 0), [i \in 1..n |-> TypedChar(i)], 0)
    IN  handleKeyTimes(typed, KEY_LEFT, FALSE, 0, m)

InitEdit ==
    /\ rxBuffer = [i \in Ring |-> 0]
    /\ rxHead = 0
    /\ rxTail = 0
    /\ txBuffer = [i \in Ring |-> 0]
    /\ txHead = 0
    /\ txTail = 0
    /\ isReceiving = FALSE
    /\ framingErrorCount = 0
    /\ sigPin = HIGH
    /\ pc = "idle"
    /\ elapsed = 0
    /\ wire = << >>
    /\ last = [op |-> "none", arg |-> 0, ret |-> 0]
    /\ \E f \in EditFonts, n \in EditLens, m \in EditMoves :
          LET e == TypedLine(f, n, m)
          IN  /\ buffer = e.buf
              /\ length = e.len
              /\ cursorPos = e.cur
              /\ viewOffset = e.view
              /\ fontId = e.font
              /\ cursorVisible = e.vis
              /\ lastBlinkTime = e.blink
    /\ rxModel = << >>
    /\ txModel = << >>
    /\ winDeferred = << >>
    /\ winFlushed = << >>
    /\ peerTalking = TRUE
    /\ loopByte = 0
    /\ rxLine = << >>
    /\ InitBlock
    /\ peerCount = 0
    /\ writeCount = 0
    /\ readCount = 0
    /\ sendCount = 0
    /\ displayLine = << >>
    /\ lastKey = 0
    /\ lastKeyTime = 0
    /\ now = 0
    /\ enableShowStatusBar = TRUE
    /\ enableDebugToScreen = TRUE
    /\ enableDebugThroughSerial = TRUE
    /\ lastKeyPressed = 255
    /\ poll = NoPoll
    /\ keyCount = 0
    /\ timeCount = 0

EditHandleKey ==
    /\ keyCount < MaxEditOps
    /\ keyCount' = keyCount + 1
    /\ \E key \in EditKeys, shiftPressed \in BOOLEAN :
          HandleKey(key, shiftPressed)

EditSetFont ==
    /\ keyCount < MaxEditOps
    /\ keyCount' = keyCount + 1
    /\ \E f \in SetFontArgs : SetFont(f)

EditClear ==
    /\ keyCount < MaxEditOps
    /\ keyCount' = keyCount + 1
    /\ Clear

EditRender == Render /\ UNCHANGED keyCount

\* millis() moves on by one blink interval.
BlinkTimePasses ==
    /\ pc = "idle"
    /\ timeCount < MaxBlinks
    /\ timeCount' = timeCount + 1
    /\ now' = now + BLINK_INTERVAL_MS
    /\ UNCHANGED << linkVars, last, lineVars, viewVars, kbdVars, keyCount >>

NextEdit ==
    \/ EditHandleKey
    \/ EditSetFont
    \/ EditClear
    \/ EditRender
    \/ BlinkTimePasses

SpecEdit == InitEdit /\ [][NextEdit]_vars

----------------------------------------------------------------------------
(* SpecDebounce: readKeyboard() polled with a few codes at chosen times     *)

DebounceKeys == {0, 97, KEY_ENTER}
DebounceSteps == {1, KEY_DEBOUNCE_MS - 1, KEY_DEBOUNCE_MS}

\* A table position whose shifted and sym entries are not defined.
PlainRow(key) == [orig |-> key, shifted |-> key, symk |-> 0]

PollKey ==
    /\ keyCount < MaxPolls
    /\ keyCount' = keyCount + 1
    /\ \E key \in DebounceKeys : ReadKeyboard(key, FALSE, FALSE, PlainRow(key))

DebounceTimePasses ==
    /\ timeCount < MaxTimeSteps
    /\ timeCount' = timeCount + 1
    /\ \E d \in DebounceSteps : TimePasses(d)

NextDebounce ==
    \/ PollKey
    \/ DebounceTimePasses
    \/ UpdateSigLow /\ UNCHANGED budgets
    \/ Tick /\ UNCHANGED budgets
    \/ UpdateTimeout /\ UNCHANGED budgets
    \/ UpdateClearFlag /\ UNCHANGED budgets
    \/ UpdateFlush /\ UNCHANGED budgets

SpecDebounce == Init /\ [][NextDebounce]_vars

----------------------------------------------------------------------------
(* SpecKbd: readKeyboard() polled with codes of every class and both        *)
(* modifiers                                                                *)

\* What one poll can find: code, shift held, sym held.  A printable code, the
\* immediate-send codes '0' and 'c' with and without their modifiers, Enter
\* and Shift+Del, a deny-list code, and F0 under each modifier state.
KbdPolls ==
    { << 0, FALSE, FALSE >>, << 97, FALSE, FALSE >>,
      << 48, FALSE, FALSE >>, << 48, TRUE, FALSE >>, << 48, TRUE, TRUE >>,
      << 99, FALSE, FALSE >>, << 99, FALSE, TRUE >>, << 99, TRUE, TRUE >>,
      << KEY_ENTER, FALSE, FALSE >>, << KEY_ENTER, TRUE, FALSE >>,
      << 10, FALSE, FALSE >>,
      << 240, FALSE, FALSE >>, << 240, TRUE, FALSE >>,
      << 240, FALSE, TRUE >>, << 240, TRUE, TRUE >> }
KbdSteps == {KEY_DEBOUNCE_MS + 1}

\* A table position whose shifted or sym entry is the code the decoder
\* reported, on another unmodified entry ('p').
ModifiedRow(key, shiftPressed, symPressed) ==
    [ orig |-> 112,
      shifted |-> IF shiftPressed THEN key ELSE 41,
      symk |-> IF symPressed /\ ~shiftPressed THEN key ELSE 35 ]

KeyRows(key, shiftPressed, symPressed) ==
    IF shiftPressed \/ symPressed
    THEN {PlainRow(key), ModifiedRow(key, shiftPressed, symPressed)}
    ELSE {PlainRow(key)}

PollKbd ==
    /\ keyCount < MaxKbdPolls
    /\ keyCount' = keyCount + 1
    /\ \E p \in KbdPolls :
          \E row \in KeyRows(p[1], p[2], p[3]) :
              ReadKeyboard(p[1], p[2], p[3], row)

KbdTimePasses ==
    /\ timeCount < MaxKbdTime
    /\ timeCount' = timeCount + 1
    /\ \E d \in KbdSteps : TimePasses(d)

NextKbd ==
    \/ PollKbd
    \/ KbdTimePasses
    \/ UpdateSigLow /\ UNCHANGED budgets
    \/ Tick /\ UNCHANGED budgets
    \/ UpdateTimeout /\ UNCHANGED budgets
    \/ UpdateClearFlag /\ UNCHANGED budgets
    \/ UpdateFlush /\ UNCHANGED budgets

SpecKbd == Init /\ [][NextKbd]_vars

----------------------------------------------------------------------------
(* SpecFn: readKeyboard() polled with the device-local function key        *)

\* F0 under each modifier state, a printable code and the zero code.
FnPolls ==
    { << 0, FALSE, FALSE >>, << 97, FALSE, FALSE >>,
      << 240, FALSE, FALSE >>, << 240, TRUE, FALSE >>,
      << 240, FALSE, TRUE >>, << 240, TRUE, TRUE >> }
FnSteps == {KEY_DEBOUNCE_MS + 1, BLINK_INTERVAL_MS}

PollFn ==
    /\ keyCount < MaxFnPolls
    /\ keyCount' = keyCount + 1
    /\ \E p \in FnPolls : ReadKeyboard(p[1], p[2], p[3], PlainRow(p[1]))

FnTimePasses ==
    /\ timeCount < MaxFnTime
    /\ timeCount' = timeCount + 1
    /\ \E d \in FnSteps : TimePasses(d)

NextFn ==
    \/ PollFn
    \/ FnTimePasses

SpecFn == Init /\ [][NextFn]_vars

----------------------------------------------------------------------------
(* SpecConfirm: lines typed and confirmed through readKeyboard()            *)

\* 'h', 'i', the cursor-left key, Enter, and the zero code.
ConfirmPolls ==
    { << 0, FALSE, FALSE >>, << 104, FALSE, FALSE >>, << 105, FALSE, FALSE >>,
      << KEY_LEFT, FALSE, FALSE >>, << KEY_ENTER, FALSE, FALSE >> }
ConfirmSteps == {KEY_DEBOUNCE_MS + 1}

PollConfirm ==
    /\ keyCount < MaxConfirmPolls
    /\ keyCount' = keyCount + 1
    /\ \E p \in ConfirmPolls : ReadKeyboard(p[1], p[2], p[3], PlainRow(p[1]))

ConfirmTimePasses ==
    /\ timeCount < MaxConfirmTime
    /\ timeCount' = timeCount + 1
    /\ \E d \in ConfirmSteps : TimePasses(d)

NextConfirm ==
    \/ PollConfirm
    \/ ConfirmTimePasses
    \/ UpdateSigLow /\ UNCHANGED budgets
    \/ Tick /\ UNCHANGED budgets
    \/ UpdateTimeout /\ UNCHANGED budgets
    \/ UpdateClearFlag /\ UNCHANGED budgets
    \/ UpdateFlush /\ UNCHANGED budgets

SpecConfirm == Init /\ [][NextConfirm]_vars

----------------------------------------------------------------------------
(* SpecFrame: one polling session after another against a peer that drives  *)
(* well-formed frames, frames with a low stop bit and false starts, while   *)
(* callers write                                                            *)

FrameBytes == {0, 165}
FrameWaves ==
    {ValidWave(165)} \cup {BadStopWave(b) : b \in FrameBytes} \cup {GlitchWave}

\* The peer pulls the RX line low at the start, in the middle or in the last
\* millisecond of the timeout window.
FrameMoments == {0, TIMEOUT_MS \div 2, TIMEOUT_MS - 1}
FramePeerSends ==
    /\ peerCount < MaxFrames
    /\ elapsed \in FrameMoments
    /\ peerCount' = peerCount + 1
    /\ \E w \in FrameWaves :
          /\ rxLine' = w
          /\ UpdateReceive(<< receiveWave(w) >>)
    /\ UNCHANGED << loopByte, blockVars, writeCount, readCount, sendCount >>

NextFrame ==
    \/ CallUpdate
    \/ UpdateSigLow /\ UNCHANGED budgets
    \/ Tick /\ UNCHANGED budgets
    \/ FramePeerSends
    \/ UpdateTimeout /\ UNCHANGED budgets
    \/ UpdateClearFlag /\ UNCHANGED budgets
    \/ UpdateFlush /\ UNCHANGED budgets
    \/ CallWrite

SpecFrame == Init /\ [][NextFrame]_vars

----------------------------------------------------------------------------
(* SpecRle: print-block commands whose runs are short, fill the block       *)
(* exactly, exceed it, or carry counts near the top of the 16-bit range     *)

BlockCoords == {0, 60}
RleValues == {0, 255}
RleCounts == {0, 1, 300, arraySize, UINT16 - 1}

CallPrintBlockRle ==
    /\ \E x \in BlockCoords, y \in BlockCoords : PrintBlockRleBegin(x, y)
    /\ UNCHANGED << budgets, keyCount, timeCount >>

RleRunArrives ==
    /\ peerCount < MaxRuns
    /\ peerCount' = peerCount + 1
    /\ \E value \in RleValues, count \in RleCounts :
          PrintBlockRleRun(value, count)
    /\ UNCHANGED << writeCount, readCount, sendCount, keyCount, timeCount >>

NextRle ==
    \/ CallPrintBlockRle
    \/ RleRunArrives
    \/ PrintBlockRleEnd /\ UNCHANGED << budgets, keyCount, timeCount >>

SpecRle == Init /\ [][NextRle]_vars

----------------------------------------------------------------------------
(* Properties of the link *)

Last(q) == q[Len(q)]

\* C1: every byte the device drives on the TX line, whether sent by write()
\* or by flushTxBuffer() from update(), starts while the ready signal is
\* deasserted (high) and the receiving flag is false.
C1_NoTransmitIntoReceiveWindow ==
    \A i \in 1..Len(wire) : wire[i].sig = HIGH /\ wire[i].rcv = FALSE

C1_Witness ==
    /\ \E i \in 1..Len(wire) : wire[i].by = "write"
    /\ \E i \in 1..Len(wire) : wire[i].by = "flush"

\* A step that is one call of write(b).
IsWriteCall == writeCount' = writeCount + 1 /\ last'.op = "write"

\* C2 as claimed: write(b) transmits b at once and leaves the TX ring alone
\* when the receiving flag is false, enqueues b and drives nothing when it is
\* true, and returns 1 either way.
C2_WriteTransmitsOrEnqueues ==
    [][IsWriteCall =>
         /\ last'.ret = 1
         /\ IF isReceiving
            THEN /\ TxContent' = Append(TxContent, last'.arg)
                 /\ wire' = wire
            ELSE /\ WireBytes' = Append(WireBytes, last'.arg)
                 /\ UNCHANGED txVars]_vars

\* C2 amended: as above, except that with the flag true and 127 bytes already
\* queued the byte is dropped: the TX ring and the line are both unchanged,
\* and write() still returns 1.
C2_WriteTransmitsEnqueuesOrDrops ==
    [][IsWriteCall =>
         /\ last'.ret = 1
         /\ IF isReceiving
            THEN /\ IF Len(TxContent) < RX_BUFFER_SIZE - 1
                    THEN TxContent' = Append(TxContent, last'.arg)
                    ELSE UNCHANGED txVars
                 /\ wire' = wire
            ELSE /\ WireBytes' = Append(WireBytes, last'.arg)
                 /\ UNCHANGED txVars]_vars

C2_Witness ==
    /\ last.op = "write"
    /\ isReceiving
    /\ TxContent # << >>
    /\ Last(TxContent) = last.arg
    /\ \E i \in 1..Len(wire) : wire[i].by = "write"

\* C3 as claimed: when update() has returned, the bytes it flushed are
\* exactly the bytes written during its receive window, in order.
C3_EveryDeferredByteIsFlushed ==
    pc = "idle" => winFlushed = winDeferred

\* C3 amended: the bytes written during a receive window that found room in
\* the TX ring (the first 127 of the window; later ones are dropped) are
\* transmitted only after the window has closed (ready signal high, flag
\* cleared), in the order written, each once; none is left when update()
\* returns.
C3_AcceptedDeferredBytesAreFlushedInOrder ==
    /\ winFlushed \o TxContent = Take(winDeferred, RX_BUFFER_SIZE - 1)
    /\ isReceiving => winFlushed = << >>
    /\ pc = "idle" => TxContent = << >>
    /\ \A i \in 1..Len(wire) :
          wire[i].by = "flush" => wire[i].sig = HIGH /\ wire[i].rcv = FALSE

C3_Witness ==
    /\ pc = "idle"
    /\ Len(winDeferred) > RX_BUFFER_SIZE - 1
    /\ Len(winFlushed) = RX_BUFFER_SIZE - 1

\* C4: for the RX and the TX ring, head and tail stay below 128, the ring is
\* empty iff head = tail, full iff (head + 1) mod 128 = tail, and available()
\* is the number of bytes accepted and not yet read.
C4_RingIndexInvariant ==
    /\ rxHead \in Ring /\ rxTail \in Ring
    /\ txHead \in Ring /\ txTail \in Ring
    /\ (Len(rxModel) = 0) <=> (rxHead = rxTail)
    /\ (Len(txModel) = 0) <=> (txHead = txTail)
    /\ (Len(rxModel) = RX_BUFFER_SIZE - 1)
          <=> (((rxHead + 1) % RX_BUFFER_SIZE) = rxTail)
    /\ (Len(txModel) = RX_BUFFER_SIZE - 1)
          <=> (((txHead + 1) % RX_BUFFER_SIZE) = txTail)
    /\ available = Len(rxModel)

C4_Witness ==
    /\ Len(rxModel) = RX_BUFFER_SIZE - 1
    /\ rxHead < rxTail
    /\ Len(txModel) = RX_BUFFER_SIZE - 1

\* C5: the RX ring always reads back as the drop-newest FIFO of the bytes
\* received: once 127 bytes are held every further byte is discarded without
\* changing what is readable, and available() never exceeds 127.
C5_RxOverflowDropsNewest ==
    /\ RxContent = rxModel
    /\ available <= RX_BUFFER_SIZE - 1

C5_Witness ==
    /\ readCount = 0
    /\ peerCount >= 2
    /\ Len(RxContent) = RX_BUFFER_SIZE - 1

\* C6: read() returns the oldest byte still buffered and removes it; on an
\* empty RX ring it returns -1 and leaves head, tail and contents unchanged.
C6_ReadPopsOldest ==
    [][readCount' = readCount + 1 =>
         IF rxModel = << >>
         THEN last'.ret = -1 /\ UNCHANGED rxVars
         ELSE /\ last'.ret = Head(rxModel)
              /\ RxContent' = Tail(rxModel)
              /\ UNCHANGED << rxBuffer, rxHead >>]_vars

C6_Witness ==
    /\ last.op = "read"
    /\ last.ret # -1
    /\ rxModel # << >>
    /\ Head(rxModel) # last.ret

\* C7: every byte value sent with transmitByte (start bit low, 8 data bits
\* least significant first, stop bit high) into the receiver of update()
\* lands in the RX ring as the same value, and the framing-error counter
\* stays where it was.
C7_LoopbackRoundTrip ==
    peerCount > 0 =>
        /\ RxContent # << >>
        /\ Last(RxContent) = loopByte
        /\ framingErrorCount = 0

C7_Witness ==
    /\ peerCount > 0
    /\ loopByte = 104
    /\ RxContent = << 104 >>

\* C8 as claimed: update() always eventually returns, whatever the peer does
\* on the RX line.
C8_UpdateAlwaysReturns == InUpdate ~> (pc = "idle")

\* C8 amended: update() eventually returns provided the peer eventually stops
\* sending; every byte received restarts the timeout, so a peer that keeps
\* sending keeps update() in its loop.
C8_UpdateReturnsOncePeerIsSilent ==
    (<>[](~peerTalking)) => (InUpdate ~> (pc = "idle"))

C8_Witness ==
    /\ pc = "idle"
    /\ ~peerTalking
    /\ RxContent # << >>
    /\ elapsed = TIMEOUT_MS

\* C9 as claimed: serialReadUint8() entered with an empty RX ring eventually
\* returns, because its busy-wait advances the receive polling.
C9_ReadUint8EventuallyReturns ==
    (pc = "r8_test" /\ available = 0) ~> (pc = "idle")

\* The XOR of the start marker, the length and the line's bytes, bit by bit:
\* bit k is the parity of the number of operands with bit k set.
BitOf(x, k) == (x \div (2 ^ k)) % 2
FrameChecksumBit(k) ==
    ( BitOf(LINE_START_MARKER, k) + BitOf(length, k)
      + Cardinality({i \in 0..(length - 1) : BitOf(buffer[i], k) = 1}) ) % 2
FrameChecksum ==
    FrameChecksumBit(0) + 2 * FrameChecksumBit(1) + 4 * FrameChecksumBit(2)
    + 8 * FrameChecksumBit(3) + 16 * FrameChecksumBit(4)
    + 32 * FrameChecksumBit(5) + 64 * FrameChecksumBit(6)
    + 128 * FrameChecksumBit(7)
ExpectedFrame ==
    << LINE_START_MARKER, length >>
        \o [i \in 1..length |-> buffer[i - 1]]
        \o << FrameChecksum, LINE_END_MARKER >>

\* C10: for every line of length L in 0..128, sendLine() puts exactly
\* [0xF8][L][the L bytes in order][checksum][0xF9] on the line, contiguously,
\* with checksum = 0xF8 XOR L XOR (XOR of the L bytes), and leaves the
\* buffer, the length and the cursor as they were.
C10_SendLineFrame ==
    [][sendCount' = sendCount + 1 =>
         /\ WireBytes' = WireBytes \o ExpectedFrame
         /\ UNCHANGED lineVars]_vars

C10_Witness ==
    /\ sendCount = 1
    /\ length = MAX_INPUT
    /\ Len(wire) = MAX_INPUT + 4
    /\ WireBytes[1] = 248 /\ WireBytes[2] = 128 /\ WireBytes[Len(wire)] = 249

----------------------------------------------------------------------------
(* Properties of the framing helpers *)

\* a XOR b on bytes, bit by bit.
XorBits(a, b) ==
    ((BitOf(a, 0) + BitOf(b, 0)) % 2) + 2 * ((BitOf(a, 1) + BitOf(b, 1)) % 2)
    + 4 * ((BitOf(a, 2) + BitOf(b, 2)) % 2)
    + 8 * ((BitOf(a, 3) + BitOf(b, 3)) % 2)
    + 16 * ((BitOf(a, 4) + BitOf(b, 4)) % 2)
    + 32 * ((BitOf(a, 5) + BitOf(b, 5)) % 2)
    + 64 * ((BitOf(a, 6) + BitOf(b, 6)) % 2)
    + 128 * ((BitOf(a, 7) + BitOf(b, 7)) % 2)

\* C11: for every key code c in 0..255, sendKeyPacket(c) puts exactly the four
\* bytes [0xFD][c][0xFD XOR c][0xFE] on the line, in that order; the modifier
\* packets are the same frame with c = 0x10 or 0x11.
C11_SendKeyFrame ==
    [][(keyCount' = keyCount + 1 /\ last'.op = "sendKeyPacket") =>
         WireBytes' =
            WireBytes \o << 253, last'.arg, XorBits(253, last'.arg), 254 >>]_vars

C11_Witness ==
    /\ last.op = "sendKeyPacket"
    /\ last.arg = 16
    /\ WireBytes = << 253, 16, 237, 254 >>

\* C12 as claimed: no debug frame on the line carries more than 63 payload
\* bytes, whatever the length of the text given to sendDebugPacket(): among
\* any 64 consecutive bytes of debug traffic there is a start or end marker.
C12_DebugFramesBounded ==
    \A i \in 1..Len(wire) :
        (i + bufferSize - 1 <= Len(wire)) =>
            \E j \in i..(i + bufferSize - 1) :
                WireBytes[j] \in {DEBUG_START_MARKER, DEBUG_END_MARKER}

----------------------------------------------------------------------------
(* Properties of the editor *)

\* C13: after any sequence of handleKey() calls (insert, delete, left,
\* right, confirm), clear() and setFont(), the editor satisfies
\* 0 <= cursor <= length <= 128.
C13_CursorInvariant ==
    /\ 0 <= cursorPos
    /\ cursorPos <= length
    /\ length <= 128

\* A key was refused at the right end of a full line.
C13_Witness ==
    /\ last.op = "handleKey"
    /\ last.arg \in {65, KEY_RIGHT}
    /\ length = 128
    /\ cursorPos = 128
    /\ keyCount = 2

\* C14: after every edit or cursor move and after setFont(), the viewport
\* satisfies view_offset <= cursor <= view_offset + usable_width, where
\* usable_width is the column count of the font in use minus the 5 columns
\* of the prompt.
C14_ViewportInvariant ==
    LET cols == fontConfig[(IF fontId > 3 THEN 0 ELSE fontId) + 1][1]
    IN  /\ viewOffset <= cursorPos
        /\ cursorPos <= viewOffset + (cols - 5)

\* setFont(3) on a long line scrolled the view to keep the cursor inside.
C14_Witness ==
    /\ last.op = "setFont"
    /\ last.arg = 3
    /\ fontId = 3
    /\ cursorPos = 127
    /\ viewOffset = 109

\* C15 as claimed: in every state reached by key events, a render() that
\* leaves the blink flag visible puts a cursor glyph in the display line: the
\* block at the cursor's character when the cursor is inside the line, the
\* end-of-line cursor when cursor = length.
C15_CursorIsRendered ==
    (last.op = "render" /\ cursorVisible) =>
        \E p \in 1..Len(displayLine) :
            displayLine[p] = (IF cursorPos < length THEN 219 ELSE 95)

----------------------------------------------------------------------------
(* Properties of the keyboard pipeline *)

\* A step that is one poll of readKeyboard().
IsPoll == keyCount' = keyCount + 1 /\ last'.op = "readKeyboard"

\* The poll left the editor as it was.
EditorUntouched ==
    /\ buffer' = buffer
    /\ length' = length
    /\ cursorPos' = cursorPos
    /\ viewOffset' = viewOffset

\* C16: a poll that returns the same non-zero key as the last accepted one,
\* with no zero-code poll in between and less than 25 ms after that
\* acceptance, is suppressed: it puts nothing on the line, leaves the editor
\* alone and does not restart the debounce timer.
C16_DebounceSuppression ==
    [][(/\ IsPoll
        /\ poll'.key # 0
        /\ poll'.key = poll.prevKey
        /\ now - poll.prevTime < 25)
       => (/\ ~poll'.accepted
           /\ wire' = wire
           /\ EditorUntouched
           /\ lastKeyTime' = lastKeyTime)]_vars

\* 'a' was accepted, polled again 24 ms later and suppressed.
C16_Witness ==
    /\ last.op = "readKeyboard"
    /\ poll.key = 97
    /\ ~poll.accepted
    /\ poll.prevKey = 97
    /\ now - poll.prevTime = 24
    /\ length = 1

\* C17 as claimed: a non-zero key is accepted if it differs from the
\* previously accepted code, or if at least 25 ms (exactly 25 included) have
\* passed since the previous acceptance of the same code.
C17_DebounceAcceptance ==
    [][(/\ IsPoll
        /\ poll'.key # 0
        /\ (poll'.key # poll.prevKey \/ now - poll.prevTime >= 25))
       => poll'.accepted]_vars

\* C18 as claimed: a polled code of the deny-list (0x0A, 0xAA, 0x98, 0x97,
\* 0x96, 0x04, 0x1E) is dropped entirely: no packet of any kind goes out, the
\* editor is not reached, and the last-key / last-time debounce state is not
\* updated.
C18_DenyListDropped ==
    [][(IsPoll /\ poll'.key \in {10, 170, 152, 151, 150, 4, 30})
       => (/\ wire' = wire
           /\ EditorUntouched
           /\ lastKey' = lastKey
           /\ lastKeyTime' = lastKeyTime)]_vars

\* The four bytes of a key frame for code c, written out from the frame table.
KeyFrame(c) == << 253, c, XorBits(253, c), 254 >>

\* The bytes the step put on the line.
NewBytes == SubSeq(WireBytes', Len(wire) + 1, Len(wire'))

\* The polled code with the held modifiers is an immediate-send combination.
IsCombo ==
    \/ poll'.shift /\ poll'.key \in 48..51
    \/ poll'.sym /\ poll'.key = 99

ModifierSent(m) ==
    \E i \in 1..Len(NewBytes) :
        /\ i + 3 <= Len(NewBytes)
        /\ SubSeq(NewBytes, i, i + 3) = KeyFrame(m)

\* C20 as claimed: a modifier packet goes out before a key only when the
\* shifted (sym) entry of the key tables at the key's resolved position is
\* not distinguishable from the unmodified entry; when the modified entry is
\* distinct, no modifier packet precedes the key packet.
C20_ModifierPrefixSuppression ==
    [][IsPoll =>
          /\ ModifierSent(16) =>
                (poll'.row.shifted = poll'.row.orig \/ poll'.row.shifted = 0)
          /\ ModifierSent(17) =>
                (poll'.row.symk = poll'.row.orig \/ poll'.row.symk = 0)]_vars

\* The accepted poll is a device-local function key: F0 with no modifier,
\* with sym only, or with shift only.
IsFunctionKey ==
    /\ IsPoll
    /\ poll'.accepted
    /\ poll'.key = 240
    /\ ~(poll'.shift /\ poll'.sym)

\* C21: an accepted device-local function key toggles exactly one
\* diagnostic flag (status bar for F0 alone, on-screen debug echo with sym,
\* on-wire debug echo with shift), leaves the other two flags and the line
\* editor unchanged (the blink state is as the render() of the poll leaves
\* it), and is never forwarded to the host as a key frame or a line frame.
C21_FunctionKeyTogglesOneFlag ==
    [][IsFunctionKey =>
          LET bar == ~poll'.shift /\ ~poll'.sym
              screen == poll'.sym
              serial == poll'.shift
              blinks == now - lastBlinkTime >= 500
          IN  /\ enableShowStatusBar' = (IF bar THEN ~enableShowStatusBar
                                         ELSE enableShowStatusBar)
              /\ enableDebugToScreen' = (IF screen THEN ~enableDebugToScreen
                                         ELSE enableDebugToScreen)
              /\ enableDebugThroughSerial' =
                    (IF serial THEN ~enableDebugThroughSerial
                     ELSE enableDebugThroughSerial)
              /\ EditorUntouched
              /\ fontId' = fontId
              /\ cursorVisible' = (IF blinks THEN ~cursorVisible
                                   ELSE cursorVisible)
              /\ lastBlinkTime' = (IF blinks THEN now ELSE lastBlinkTime)
              /\ \A i \in 1..Len(NewBytes) :
                    NewBytes[i] \notin {KEY_START_MARKER, LINE_START_MARKER}
              /\ pc' = "idle"]_vars

\* sym + F0 after a typed character switched the on-screen echo off.
C21_Witness ==
    /\ last.op = "readKeyboard"
    /\ poll.accepted
    /\ poll.key = 240
    /\ poll.sym
    /\ ~poll.shift
    /\ ~enableDebugToScreen
    /\ enableShowStatusBar
    /\ enableDebugThroughSerial
    /\ length = 1

\* The number of characters of the report a function key prints before the
\* digit: "Status bar enabled: " or "Debug to screen/serial enabled: ".
ReportPrefixLen == IF ~poll'.shift /\ ~poll'.sym THEN 20 ELSE 25

\* The value of the flag the function key toggled, after the toggle.
ToggledFlag ==
    IF poll'.shift THEN enableDebugThroughSerial'
    ELSE IF poll'.sym THEN enableDebugToScreen'
    ELSE enableShowStatusBar'

\* The step ends with a debug frame that reports the toggled flag: start
\* marker, the text of the flag, the digit of its new value, end marker.
ReportsNewState ==
    LET n == Len(NewBytes)
        m == ReportPrefixLen + 3
    IN  /\ n >= m
        /\ NewBytes[n - m + 1] = 250
        /\ NewBytes[n - m + 2] = (IF ~poll'.shift /\ ~poll'.sym THEN 83 ELSE 68)
        /\ NewBytes[n - 2] = 32
        /\ NewBytes[n - 1] = (IF ToggledFlag THEN 49 ELSE 48)
        /\ NewBytes[n] = 251

\* C22 as claimed: every accepted device-local function key emits a debug
\* packet reporting the new state of the flag it toggled, in every state of
\* the diagnostic flags, the toggle that switches the on-wire echo off
\* included.
C22_FunctionKeyAlwaysReports ==
    [][IsFunctionKey => ReportsNewState]_vars

\* C22, amended: an accepted device-local function key emits the debug
\* packet reporting the new state of its flag exactly when the on-wire debug
\* echo is on after the toggle; when the echo is off after the toggle (the
\* toggle that switches it off included) no report goes out on the line.
C22_FunctionKeyReportsWhenEchoOn ==
    [][IsFunctionKey =>
          IF enableDebugThroughSerial'
          THEN ReportsNewState
          ELSE \A i \in 1..Len(NewBytes) :
                  i + 1 <= Len(NewBytes) =>
                     ~(NewBytes[i] = 250 /\ NewBytes[i + 1] \in {83, 68})]_vars

\* shift + F0 switched the on-wire echo off: the line carries the debug
\* frame of the key and no report.
C22_Witness ==
    /\ last.op = "readKeyboard"
    /\ poll.accepted
    /\ poll.key = 240
    /\ poll.shift
    /\ ~poll.sym
    /\ ~enableDebugThroughSerial
    /\ keyCount = 1
    /\ Len(wire) = 21
    /\ WireBytes[1] = 250
    /\ WireBytes[2] = 75
    /\ WireBytes[21] = 251

\* The accepted poll is an unmodified confirm key.
IsConfirm ==
    /\ IsPoll
    /\ poll'.accepted
    /\ poll'.key = 8
    /\ ~poll'.shift

\* The last n bytes of a sequence.
Suffix(s, n) == SubSeq(s, Len(s) - n + 1, Len(s))

\* C23: an unmodified confirm key leaves buffer content, length, cursor and
\* view offset unchanged and emits the line frame of the buffer; when the
\* previous poll was an accepted confirm as well (no edit in between), the
\* frame it emits is byte for byte the frame that poll emitted.
C23_ConfirmIdempotent ==
    [][IsConfirm =>
          /\ EditorUntouched
          /\ last'.ret = 1
          /\ Len(NewBytes) >= length + 4
          /\ Suffix(NewBytes, length + 4) = ExpectedFrame
          /\ (last.op = "readKeyboard" /\ last.arg = 8 /\ last.ret = 1) =>
                /\ Len(wire) >= length + 4
                /\ Suffix(NewBytes, length + 4) = Suffix(WireBytes, length + 4)]_vars

\* Two confirms in a row on the line "h": the line holds the frame twice.
C23_Witness ==
    /\ last.op = "readKeyboard"
    /\ last.arg = 8
    /\ last.ret = 1
    /\ keyCount = 3
    /\ length = 1
    /\ buffer[0] = 104
    /\ Cardinality({i \in 1..Len(wire) : WireBytes[i] = LINE_START_MARKER}) = 2
    /\ Suffix(WireBytes, 5) = << 248, 1, 104, 145, 249 >>

\* The line so far shows that exactly the keys 'h' and 'i' were accepted, in
\* this order: the two debug frames "Key:0x68 ..." and "Key:0x69 ...".
TypedHi ==
    /\ keyCount = 2
    /\ Len(wire) = 42
    /\ WireBytes[1] = 250 /\ WireBytes[8] = 54 /\ WireBytes[9] = 56
    /\ WireBytes[22] = 250 /\ WireBytes[29] = 54 /\ WireBytes[30] = 57

\* C24: from an empty editor with font id 0, the accepted keys 'h', 'i' and
\* then an unmodified confirm put the contiguous line frame
\* [0xF8][0x02]['h']['i'][0xF8 XOR 2 XOR 'h' XOR 'i'][0xF9] on the line, and
\* readKeyboard() returns true on the confirm poll only.
C24_TypeHiConfirm ==
    [][IsPoll =>
          /\ (TypedHi /\ IsConfirm)
             => /\ Len(NewBytes) >= 6
                /\ Suffix(NewBytes, 6)
                      = << 248, 2, 104, 105,
                           XorBits(XorBits(XorBits(248, 2), 104), 105), 249 >>
                /\ \A i \in 1..(Len(NewBytes) - 6) :
                      NewBytes[i] # LINE_START_MARKER
          /\ (last'.ret = 1) <=> IsConfirm]_vars

\* 'h', 'i', confirm: after the three debug frames the line ends with the
\* frame.
C24_Witness ==
    /\ keyCount = 3
    /\ last.op = "readKeyboard"
    /\ last.arg = 8
    /\ last.ret = 1
    /\ Len(wire) = 69
    /\ WireBytes[8] = 54 /\ WireBytes[9] = 56
    /\ WireBytes[29] = 54 /\ WireBytes[30] = 57
    /\ Suffix(WireBytes, 6) = << 248, 2, 104, 105, 251, 249 >>

\* A step that is one call of handleKey() on the editor.
IsHandleKey == keyCount' = keyCount + 1 /\ last'.op = "handleKey"

\* C25: for a printable key k (0x20..0x7E) with length < 128, handleKey()
\* makes the buffer old[0..cursor) ++ [k] ++ old[cursor..length) and
\* increases length and cursor by one each; with length = 128 the key changes
\* nothing in buffer content, length, cursor or view offset.
C25_Insert ==
    [][(IsHandleKey /\ last'.arg >= 32 /\ last'.arg <= 126) =>
          IF length < 128
          THEN /\ length' = length + 1
               /\ cursorPos' = cursorPos + 1
               /\ \A i \in 0..length :
                     buffer'[i] = (IF i < cursorPos THEN buffer[i]
                                   ELSE IF i = cursorPos THEN last'.arg
                                   ELSE buffer[i - 1])
          ELSE /\ buffer' = buffer
               /\ length' = length
               /\ cursorPos' = cursorPos
               /\ viewOffset' = viewOffset]_vars

\* 'z' was inserted two characters before the end of a 19-character line.
C25_Witness ==
    /\ last.op = "handleKey"
    /\ last.arg = 122
    /\ keyCount = 1
    /\ length = 20
    /\ cursorPos = 18
    /\ buffer[16] = 114
    /\ buffer[17] = 122
    /\ buffer[18] = 115
    /\ buffer[19] = 116
    /\ buffer[20] = 0

\* C26: shift + confirm with cursor > 0 makes the buffer
\* old[0..cursor-1) ++ old[cursor..length) and decreases length and cursor by
\* one each; with cursor = 0 it changes nothing in buffer content, length,
\* cursor or view offset.  (Of the two calls with the confirm code, the
\* shifted one is the one that returns false.)
C26_Delete ==
    [][(IsHandleKey /\ last'.arg = 8 /\ last'.ret = 0) =>
          IF cursorPos > 0
          THEN /\ length' = length - 1
               /\ cursorPos' = cursorPos - 1
               /\ \A i \in 0..(length - 2) :
                     buffer'[i] = (IF i < cursorPos - 1 THEN buffer[i]
                                   ELSE buffer[i + 1])
               /\ buffer'[length - 1] = 0
          ELSE /\ buffer' = buffer
               /\ length' = length
               /\ cursorPos' = cursorPos
               /\ viewOffset' = viewOffset]_vars

\* The character two before the end of a 19-character line was deleted.
C26_Witness ==
    /\ last.op = "handleKey"
    /\ last.arg = 8
    /\ last.ret = 0
    /\ keyCount = 1
    /\ length = 18
    /\ cursorPos = 16
    /\ buffer[15] = 113
    /\ buffer[16] = 115
    /\ buffer[17] = 116
    /\ buffer[18] = 0

\* The view offset one run of the viewport adjustment gives for the view
\* offset v and the cursor c at the font in use: two columns fewer are
\* visible when v > 0; scroll left to the cursor, else right so that the
\* cursor is the last visible position.
AdjustedView(v, c) ==
    LET cols == fontConfig[(IF fontId > 3 THEN 0 ELSE fontId) + 1][1]
        visible == IF v > 0 THEN cols - 7 ELSE cols - 5
    IN  IF c < v THEN c
        ELSE IF c > v + visible THEN c - visible
        ELSE v

----------------------------------------------------------------------------
(* Properties of a polling session *)

\* A step of update() that samples the RX line: it finds it high for another
\* millisecond, or finds the falling edge the peer drove.
SamplesLine == elapsed' = elapsed + 1 \/ peerCount' = peerCount + 1

\* update() returns.
UpdateReturns == pc # "idle" /\ pc' = "idle"

\* C28: update() drives the ready signal low before it samples the RX line
\* and restarts its timeout after every byte it receives; when it returns the
\* ready signal is high, the receiving flag is false and the TX ring is
\* empty; and in every state the ready signal is low only while the
\* receiving flag is true.
C28_PollingSession ==
    /\ [](sigPin = LOW => isReceiving)
    /\ [][/\ SamplesLine => sigPin = LOW
          /\ rxHead' # rxHead => elapsed' = 0
          /\ UpdateReturns => /\ sigPin' = HIGH
                              /\ ~isReceiving'
                              /\ txHead' = txTail']_vars

\* A session has returned after receiving a byte and flushing a deferred one.
C28_Witness ==
    /\ pc = "idle"
    /\ sigPin = HIGH
    /\ ~isReceiving
    /\ rxHead = 1
    /\ txHead = 1
    /\ txTail = 1
    /\ wire # << >>
    /\ winFlushed # << >>

\* The peer drove a falling edge on the RX line and update() sampled it.
SamplesFrame == peerCount' = peerCount + 1

\* C29: a byte whose stop-bit sample (half-bit 19 after the edge) is low
\* raises the framing-error counter by exactly one and is pushed to the RX
\* ring all the same; a falling edge whose line is high again at the half-bit
\* re-check (a false start) pushes nothing and leaves the counter as it was.
C29_FramingErrors ==
    [][SamplesFrame =>
          /\ (LineAt(rxLine', 1) = LOW /\ LineAt(rxLine', 19) = LOW) =>
                /\ framingErrorCount' = framingErrorCount + 1
                /\ rxHead' = (rxHead + 1) % RX_BUFFER_SIZE
                /\ rxTail' = rxTail
                /\ \E b \in Byte :
                      /\ rxLine' = BadStopWave(b)
                      /\ rxBuffer' = [rxBuffer EXCEPT ![rxHead] = b]
          /\ LineAt(rxLine', 1) # LOW =>
                /\ framingErrorCount' = framingErrorCount
                /\ UNCHANGED rxVars]_vars

\* A frame carrying 165 with a low stop bit was counted and stored, and the
\* false start that followed changed neither the counter nor the ring.
C29_Witness ==
    /\ peerCount = 2
    /\ rxLine = GlitchWave
    /\ framingErrorCount = 1
    /\ rxHead = 1
    /\ rxTail = 0
    /\ rxBuffer[0] = 165

----------------------------------------------------------------------------
(* Properties of the block decoder *)

\* C30: RLE block decoding never writes outside the 544-byte block array:
\* whatever runs (value, 16-bit count) arrive, every run is trimmed so that
\* position + count <= 544 before memset() writes it.
C30_RleWritesInsideBlock == memsetRun.at + memsetRun.n <= arraySize

----------------------------------------------------------------------------
(* Properties of the keyboard: the zero code *)

\* C31: a poll that returns code zero clears the last-seen key and accepts
\* nothing, so the next poll that returns a non-zero code is accepted however
\* little time has passed, also when it is the code accepted just before the
\* zero.
C31_ZeroPollClearsLastKey ==
    [][IsPoll =>
          /\ poll'.key = 0 => (lastKey' = 0 /\ ~poll'.accepted)
          /\ (keyCount > 0 /\ poll.key = 0 /\ poll'.key # 0) =>
                (poll'.accepted /\ lastKey' = poll'.key)]_vars

\* 'a', zero, 'a' polled without millis() moving: both 'a' were accepted and
\* typed.
C31_Witness ==
    /\ keyCount = 3
    /\ now = 0
    /\ poll.key = 97
    /\ poll.accepted
    /\ lastKey = 97
    /\ length = 2
    /\ buffer[0] = 97
    /\ buffer[1] = 97

----------------------------------------------------------------------------
(* Properties of the editor: the viewport adjustment as a fixed point *)

\* A handleKey() that moved the cursor or changed the length, and so ran
\* adjustViewOffset() once.
RanAdjust == IsHandleKey /\ (cursorPos' # cursorPos \/ length' # length)

\* C32: one call of adjustViewOffset() reaches a fixed point (a second call
\* with the same cursor, length and font would leave the view offset as it
\* is), and after a scroll to the right the cursor is the rightmost visible
\* character, with the two columns of the left-overflow indicator taken off
\* the usable width.
C32_AdjustReachesFixedPoint ==
    [][RanAdjust =>
          /\ AdjustedView(viewOffset', cursorPos') = viewOffset'
          /\ viewOffset' > viewOffset =>
                cursorPos' - viewOffset'
                    = fontConfig[(IF fontId > 3 THEN 0 ELSE fontId) + 1][1]
                      - PROMPT_WIDTH - 2]_vars

----------------------------------------------------------------------------
(* Properties of the editor: the bounds of render() *)

\* C33: in every state the editor reaches by keys, clear(), init() and
\* setFont(), with any font id, a render() writes displayLine only at
\* indices 0..cols with cols <= 64 (the array has 65 bytes), reads _buffer
\* only below _length, and neither _length - _viewOffset nor
\* charsAvailable - 2 goes below zero.
C33_RenderStaysInBounds ==
    LET a == renderAccess(EdState, now)
    IN  /\ a.cols <= 64
        /\ \A p \in a.writes : 0 <= p /\ p <= a.cols
        /\ \A i \in a.reads : 0 <= i /\ i < length
        /\ a.lengthMinusView >= 0
        /\ a.availableMinusTwo >= 0

\* A full line at the widest font, scrolled with the cursor inside it:
\* render() writes the 64 columns and the terminator at index 64, and reads
\* the characters from the view offset on, all but the one under the block
\* cursor.
C33_Witness ==
    LET a == renderAccess(EdState, now)
    IN  /\ last.op = "setFont"
        /\ fontId = 1
        /\ length = MAX_INPUT - 1
        /\ viewOffset > 0
        /\ cursorPos = length - 2
        /\ cursorVisible
        /\ a.cols = 64
        /\ a.writes = 0..64
        /\ a.lengthMinusView > 0
        /\ a.reads = (viewOffset..(length - 1)) \ {cursorPos}
====
